---- MODULE Spec2Model ----
(***************************************************************************)
(* A model of the n2yo-ts client library: the parameter validation         *)
(* (schemas.ts), the stand-alone Cache class (cache.ts), and the request   *)
(* pipeline of N2YOClient (client.ts) with its inline cache, sliding-window *)
(* rate limiter and queue drain loop.                                      *)
(*                                                                         *)
(* Three specifications share the module:                                  *)
(*   Spec       the N2YOClient pipeline (client.ts)                        *)
(*   SpecCache  the Cache class (cache.ts)                                 *)
(*   SpecPure   the pure functions: validation and cache-key derivation    *)
(***************************************************************************)
EXTENDS Integers, Sequences, FiniteSets, TLC

(***************************************************************************)
(* JavaScript values.  An optional value (a configuration field or an      *)
(* argument the caller may leave out) is <<>> for `undefined` and <<v>>    *)
(* for the value v.                                                        *)
(***************************************************************************)
Undef == <<>>
Some(v) == <<v>>

\* JS `a ?? b`
Nullish(a, b) == IF a = Undef THEN b ELSE a[1]

\* JS truthiness of an optional boolean flag (`!flag` is true for undefined)
Truthy(a) == IF a = Undef THEN FALSE ELSE a[1]

Min2(a, b) == IF a <= b THEN a ELSE b

(***************************************************************************)
(* Numeric arguments.  A JS number is modelled as i + h/2 (h: one half     *)
(* more), so that non-integers exist and `.int()` can fail.                *)
(***************************************************************************)
Num(i) == [i |-> i, h |-> FALSE]
Half(i) == [i |-> i, h |-> TRUE]

IsInt(x) == ~x.h
\* x >= n, x <= n, x > n for an integer n
Ge(x, n) == x.i >= n
Le(x, n) == x.i < n \/ (x.i = n /\ ~x.h)
Gt(x, n) == x.i > n \/ (x.i = n /\ x.h)

(***************************************************************************)
(* schemas.ts: the validation rules.  A number schema is the sequence of   *)
(* its checks in declaration order; an object schema is the sequence of    *)
(* its fields in declaration order.  Zod reports the issues field by       *)
(* field, check by check, so issues[0] is the first failing check of the   *)
(* first failing field.                                                    *)
(***************************************************************************)
Chk(k, n, msg) == [k |-> k, n |-> n, msg |-> msg]

NoradIdSchema ==
  << Chk("int", 0, "NORAD ID must be an integer"),
     Chk("positive", 0, "NORAD ID must be positive") >>

LatitudeSchema ==
  << Chk("min", -90, "Latitude must be between -90 and 90 degrees"),
     Chk("max", 90, "Latitude must be between -90 and 90 degrees") >>

LongitudeSchema ==
  << Chk("min", -180, "Longitude must be between -180 and 180 degrees"),
     Chk("max", 180, "Longitude must be between -180 and 180 degrees") >>

AltitudeSchema ==
  << Chk("min", -1000, "Altitude must be between -1000 and 10000 meters"),
     Chk("max", 10000, "Altitude must be between -1000 and 10000 meters") >>

SecondsSchema ==
  << Chk("int", 0, "Seconds must be an integer"),
     Chk("min", 1, "Seconds must be between 1 and 300"),
     Chk("max", 300, "Seconds must be between 1 and 300") >>

DaysSchema ==
  << Chk("int", 0, "Days must be an integer"),
     Chk("min", 1, "Days must be between 1 and 10"),
     Chk("max", 10, "Days must be between 1 and 10") >>

MinVisibilitySchema ==
  << Chk("positive", 0, "Minimum visibility must be positive") >>

MinElevationSchema ==
  << Chk("min", 0, "Minimum elevation must be non-negative") >>

SearchRadiusSchema ==
  << Chk("min", 0, "Search radius must be between 0 and 90 degrees"),
     Chk("max", 90, "Search radius must be between 0 and 90 degrees") >>

\* z.number().int().min(0): no custom messages, Zod's own texts
CategoryIdSchema ==
  << Chk("int", 0, "Invalid input: expected int, received number"),
     Chk("min", 0, "Too small: expected number to be >=0") >>

Fld(name, schema) == [name |-> name, schema |-> schema]

GetTleParamsSchema == << Fld("id", NoradIdSchema) >>

GetPositionsParamsSchema ==
  << Fld("id", NoradIdSchema), Fld("observerLat", LatitudeSchema),
     Fld("observerLng", LongitudeSchema), Fld("observerAlt", AltitudeSchema),
     Fld("seconds", SecondsSchema) >>

GetVisualPassesParamsSchema ==
  << Fld("id", NoradIdSchema), Fld("observerLat", LatitudeSchema),
     Fld("observerLng", LongitudeSchema), Fld("observerAlt", AltitudeSchema),
     Fld("days", DaysSchema), Fld("minVisibility", MinVisibilitySchema) >>

GetRadioPassesParamsSchema ==
  << Fld("id", NoradIdSchema), Fld("observerLat", LatitudeSchema),
     Fld("observerLng", LongitudeSchema), Fld("observerAlt", AltitudeSchema),
     Fld("days", DaysSchema), Fld("minElevation", MinElevationSchema) >>

GetAboveParamsSchema ==
  << Fld("observerLat", LatitudeSchema), Fld("observerLng", LongitudeSchema),
     Fld("observerAlt", AltitudeSchema), Fld("searchRadius", SearchRadiusSchema),
     Fld("categoryId", CategoryIdSchema) >>

\* (mutant) the upper bound of a range is excluded
CheckPasses_OpenMax(c, x) ==
  CASE c.k = "int" -> IsInt(x)
    [] c.k = "positive" -> Gt(x, 0)
    [] c.k = "min" -> Ge(x, c.n)
    [] c.k = "max" -> x.i < c.n

\* one check of a number schema applied to the number x
CheckPasses(c, x) ==
  CASE c.k = "int" -> IsInt(x)
    [] c.k = "positive" -> Gt(x, 0)
    [] c.k = "min" -> Ge(x, c.n)
    [] c.k = "max" -> Le(x, c.n)

\* the indices of the checks of a number schema that raise an issue for x:
\* the checks run in order, and after a failed .int() the later ones are
\* not run
FailingChecks(schema, x) ==
  {j \in 1..Len(schema) :
     /\ ~CheckPasses(schema[j], x)
     /\ \A k \in 1..(j - 1) :
          schema[k].k = "int" => CheckPasses(schema[k], x)}

SetMin(S) == CHOOSE m \in S : \A o \in S : m <= o

\* schema.parse(args): the fields with an issue, in declaration order.
\* args is a sequence of numbers, one per field of the schema.
FailingFields(schema, args) ==
  {f \in 1..Len(schema) : FailingChecks(schema[f].schema, args[f]) # {}}

SchemaAccepts(schema, args) == FailingFields(schema, args) = {}

\* error.issues[0] of the ZodError: [path, message] and the field's index
FirstIssue(schema, args) ==
  LET f == SetMin(FailingFields(schema, args))
      c == SetMin(FailingChecks(schema[f].schema, args[f]))
  IN  [field |-> f, path |-> schema[f].name, message |-> schema[f].schema[c].msg]

(***************************************************************************)
(* errors.ts and mapZodErrorToInvalidParameterError.  The message of an    *)
(* InvalidParameterError is `Invalid parameter ${param}: ${value}.         *)
(* ${message}`; the record keeps its three parts.  The other errors are    *)
(* [kind, message].                                                        *)
(***************************************************************************)
InvalidParameterError(param, value, message) ==
  [kind |-> "InvalidParameterError", param |-> param, value |-> value,
   reason |-> message]

Err(kind, message) == [kind |-> kind, message |-> message]
N2YOError(message) == Err("N2YOError", message)
\* the constructor of RateLimitError takes no argument: whatever is passed,
\* the message is 'API rate limit exceeded'
RateLimitError(message) == Err("RateLimitError", "API rate limit exceeded")

\* how a value prints inside the message
NumberValue(x) == [lit |-> "number", x |-> x, s |-> ""]
StringValue(s) == [lit |-> "string", x |-> Num(0), s |-> s]
UnknownValue == [lit |-> "string", x |-> Num(0), s |-> "unknown"]

\* issue.path.reduce((obj, key) => obj?.[key], {}): the lookup starts from a
\* fresh empty object, which has none of the parameters; with the empty
\* path (an issue of a schema that is no object, path "") the result is that
\* empty object, which prints as '[object Object]'
EmptyObjectLookup(path) ==
  IF path = "" THEN Some(StringValue("[object Object]")) ELSE Undef

mapZodErrorToInvalidParameterError(issue) ==
  InvalidParameterError(issue.path,
                        Nullish(EmptyObjectLookup(issue.path), UnknownValue),
                        issue.message)

(***************************************************************************)
(* The public operations' argument checks (client.ts).  A call is          *)
(* [op, args]: args is the sequence of the numeric arguments, or          *)
(* <<Name(name)>> for getTleByName.                                        *)
(***************************************************************************)
Name(s) == [s |-> s]

NetworkOps ==
  {"getTle", "getTleByName", "getPositions", "getVisualPasses",
   "getRadioPasses", "getAbove"}

SchemaOf(op) ==
  CASE op = "getTle" -> GetTleParamsSchema
    [] op = "getPositions" -> GetPositionsParamsSchema
    [] op = "getVisualPasses" -> GetVisualPassesParamsSchema
    [] op = "getRadioPasses" -> GetRadioPassesParamsSchema
    [] op = "getAbove" -> GetAboveParamsSchema

\* String.prototype.toUpperCase on the names the model uses
ToUpperCase(name) ==
  CASE name = "iss" -> "ISS"
    [] name = "hubble" -> "HUBBLE"
    [] name = "voyager" -> "VOYAGER"
    [] name = "utc" -> "UTC"
    [] name = "America/New_York" -> "AMERICA/NEW_YORK"
    [] name = "Invalid/Timezone" -> "INVALID/TIMEZONE"
    [] name \in {"", "ISS", "HUBBLE", "VOYAGER", "UTC"} -> name

\* (mutant) a name that is not in the table resolves to the ISS
COMMON_SATELLITES_Any(name) ==
  CASE name = "HUBBLE" -> Some(20580)
    [] OTHER -> Some(25544)

\* COMMON_SATELLITES[name]: <<id>> or undefined
COMMON_SATELLITES(name) ==
  CASE name = "ISS" -> Some(25544)
    [] name = "HUBBLE" -> Some(20580)
    [] name = "STARLINK_1" -> Some(44235)
    [] name = "NOAA_15" -> Some(25338)
    [] name = "NOAA_18" -> Some(28654)
    [] name = "NOAA_19" -> Some(33591)
    [] name = "GOES_16" -> Some(41866)
    [] name = "GOES_17" -> Some(43226)
    [] name = "TIANGONG" -> Some(48274)
    [] name = "JWST" -> Some(50463)
    [] name = "TERRA" -> Some(25994)
    [] name = "AQUA" -> Some(27424)
    [] name = "LANDSAT_8" -> Some(39084)
    [] name = "SENTINEL_1A" -> Some(39634)
    [] name = "IRIDIUM_NEXT_1" -> Some(41917)
    [] name = "ONEWEB_1" -> Some(44713)
    [] name = "AO_91" -> Some(43017)
    [] name = "AO_92" -> Some(43137)
    [] name = "SO_50" -> Some(27607)
    [] OTHER -> Undef

Ok(v) == [ok |-> TRUE, v |-> v]
Fail(e) == [ok |-> FALSE, error |-> e]

\* (mutant) the name is looked up in the case it was given in
ParseName_AsGiven(name) ==
  IF name = ""
    THEN Fail(mapZodErrorToInvalidParameterError(
                [path |-> "name", message |-> "Satellite name must not be empty"]))
    ELSE Ok(name)

\* GetTleByNameParamsSchema.parse({ name }).name
ParseName(name) ==
  IF name = ""
    THEN Fail(mapZodErrorToInvalidParameterError(
                [path |-> "name", message |-> "Satellite name must not be empty"]))
    ELSE Ok(ToUpperCase(name))

\* schema.parse(args), a ZodError mapped to InvalidParameterError
ParseArgs(op, args) ==
  IF SchemaAccepts(SchemaOf(op), args)
    THEN Ok(args)
    ELSE Fail(mapZodErrorToInvalidParameterError(FirstIssue(SchemaOf(op), args)))

\* (mutant) no argument is checked
Validate_NoCheck(c) ==
  IF c.op = "getTleByName"
    THEN Ok([op |-> "getTle", args |-> << Num(25544) >>])
    ELSE Ok(c)

\* The checks a call passes through before makeRequest: the validated call
\* that reaches makeRequest, or the error thrown.  getTleByName resolves
\* the name and delegates to getTle, which validates the id again.
Validate(c) ==
  IF c.op = "getTleByName"
    THEN LET parsed == ParseName(c.args[1].s) IN
         IF ~parsed.ok THEN parsed
         ELSE LET noradId == COMMON_SATELLITES(parsed.v) IN
              IF noradId = Undef
                THEN Fail(InvalidParameterError("name", StringValue(c.args[1].s),
                                                "Unknow satellite name"))
                ELSE LET again == ParseArgs("getTle", << Num(noradId[1]) >>) IN
                     IF again.ok THEN Ok([op |-> "getTle", args |-> again.v])
                     ELSE again
    ELSE LET parsed == ParseArgs(c.op, c.args) IN
         IF parsed.ok THEN Ok([op |-> c.op, args |-> parsed.v]) ELSE parsed

(***************************************************************************)
(* Endpoints and cache keys.  An endpoint text is kept in its parts:       *)
(*   pre    it starts with a scheme and host, "https://api.n2yo.com"       *)
(*   bad    what follows is ":" and a non-number, so the text is no URL    *)
(*   lead   the path starts with "/"                                       *)
(*   segs   the path segments, joined by "/"                               *)
(*   amp    <<k>>: the credential appended the way the client builds its   *)
(*          URLs, "&apiKey=k" after the last path segment                  *)
(*   query  the parameters after "?", in order, each [n, v]; the value of  *)
(*          the parameter cb is a URL, "http://x"                          *)
(* A cache key is a text too, and has the same parts.                      *)
(***************************************************************************)
SegName(s) == [s |-> s, i |-> 0, h |-> FALSE]
\* `${number}` in a template literal
SegNum(x) == [s |-> "", i |-> x.i, h |-> x.h]

Endpoint(pre, bad, lead, segs, amp, query) ==
  [pre |-> pre, bad |-> bad, lead |-> lead, segs |-> segs, amp |-> amp,
   query |-> query]

\* the endpoint a validated call asks makeRequest for (client.ts)
RelPath(segs) == Endpoint(FALSE, FALSE, FALSE, segs, <<>>, <<>>)

NumSegs(args) == [j \in 1..Len(args) |-> SegNum(args[j])]

EndpointOf(c) ==
  CASE c.op = "getTle" -> RelPath(<<SegName("tle")>> \o NumSegs(c.args))
    [] c.op = "getPositions" -> RelPath(<<SegName("positions")>> \o NumSegs(c.args))
    [] c.op = "getVisualPasses" -> RelPath(<<SegName("visualpasses")>> \o NumSegs(c.args))
    [] c.op = "getRadioPasses" -> RelPath(<<SegName("radiopasses")>> \o NumSegs(c.args))
    [] c.op = "getAbove" -> RelPath(<<SegName("above")>> \o NumSegs(c.args))

\* code-unit order of the parameter names the model uses
NameRank(n) ==
  CASE n = "alt" -> 1
    [] n = "apiKey" -> 2
    [] n = "cb" -> 3
    [] n = "lat" -> 4

Param(n, v) == [n |-> n, v |-> v]

\* url.searchParams.delete('apiKey')
DeleteApiKey(query) == SelectSeq(query, LAMBDA p : p.n # "apiKey")

\* p put behind the entries of the sorted s whose name is not greater
InsertParam(s, p) ==
  LET k == Cardinality({j \in 1..Len(s) : NameRank(s[j].n) <= NameRank(p.n)})
  IN  SubSeq(s, 1, k) \o <<p>> \o SubSeq(s, k + 1, Len(s))

\* url.searchParams.sort(): stable, by name
RECURSIVE SortParams(_)
SortParams(query) ==
  IF query = <<>> THEN <<>>
  ELSE InsertParam(SortParams(SubSeq(query, 1, Len(query) - 1)), query[Len(query)])

\* the application/x-www-form-urlencoded form of a value: ":" and "/" are
\* percent-encoded, letters and digits are kept
FormEncode(v) == IF v = "http://x" THEN "http%3A%2F%2Fx" ELSE v

\* url.search after searchParams.delete('apiKey') and searchParams.sort():
\* the list is written back in its serialized form
SearchOf(query) ==
  LET sorted == SortParams(DeleteApiKey(query))
  IN  [j \in 1..Len(sorted) |-> Param(sorted[j].n, FormEncode(sorted[j].v))]

\* new URL(text).pathname: without a leading "/" the first segment is read
\* as the rest of the host name ("http://dummy.base" + "tle/25544")
PathnameSegs(e) == IF e.lead \/ e.segs = <<>> THEN e.segs ELSE Tail(e.segs)

\* the text contains "://"
IncludesSchemeMark(e) ==
  e.pre \/ \E j \in 1..Len(e.query) : e.query[j].v = "http://x"

\* new URL(endpoint.includes('://') ? endpoint : `http://dummy.base${endpoint}`)
\* throws: the text is no URL, or it is taken as it is and has no scheme
NewUrlThrows(e) == e.bad \/ (IncludesSchemeMark(e) /\ ~e.pre)

\* Cache.getCacheKey (cache.ts): `${url.pathname}${url.search}`, or the
\* fallback when new URL throws
CacheGetCacheKey(e) ==
  IF NewUrlThrows(e)
    THEN \* endpoint.split('?')[0]?.split('&apiKey=')[0] ?? endpoint
         Endpoint(e.pre, e.bad, e.lead, e.segs, <<>>, <<>>)
    ELSE Endpoint(FALSE, FALSE, TRUE, PathnameSegs(e),
                  IF e.lead \/ Len(e.segs) >= 2 THEN e.amp ELSE <<>>,
                  SearchOf(e.query))

\* Cache.normalizeKey (cache.ts): as getCacheKey, but the text itself when
\* new URL throws
normalizeKey(e) ==
  IF NewUrlThrows(e) THEN e
  ELSE Endpoint(FALSE, FALSE, TRUE, PathnameSegs(e),
                IF e.lead \/ Len(e.segs) >= 2 THEN e.amp ELSE <<>>,
                SearchOf(e.query))

\* the parameters in front of the first "&apiKey=" of the query text: an
\* apiKey parameter that is not the first one is written "&apiKey=..."
BeforeAmpApiKey(query) ==
  LET hits == {j \in 2..Len(query) : query[j].n = "apiKey"}
  IN  IF hits = {} THEN query ELSE SubSeq(query, 1, SetMin(hits) - 1)

IsEmptyText(e) == ~e.pre /\ ~e.bad /\ ~e.lead /\ e.segs = <<>> /\ e.amp = <<>>
                  /\ e.query = <<>>

\* N2YOClient.getCacheKey (client.ts): endpoint.split('&apiKey=')[0] || endpoint
getCacheKey(e) ==
  LET cut == IF e.amp # <<>>
               THEN Endpoint(e.pre, e.bad, e.lead, e.segs, <<>>, <<>>)
               ELSE Endpoint(e.pre, e.bad, e.lead, e.segs, <<>>,
                             BeforeAmpApiKey(e.query))
  IN  IF IsEmptyText(cut) THEN e ELSE cut

\* the credentials a text carries
CredentialsIn(e) ==
  {e.amp[j] : j \in 1..Len(e.amp)} \cup
  {e.query[j].v : j \in {k \in 1..Len(e.query) : e.query[k].n = "apiKey"}}

(***************************************************************************)
(* A JS Map from cache key to CacheEntry, as the sequence of its entries   *)
(* in insertion order.  Map.set on a present key replaces the entry where  *)
(* it stands; on a new key it appends.                                     *)
(***************************************************************************)
CacheEntry(key, data, timestamp, ttl) ==
  [key |-> key, data |-> data, timestamp |-> timestamp, ttl |-> ttl]

MapKeys(m) == {m[j].key : j \in 1..Len(m)}
MapHas(m, key) == key \in MapKeys(m)
MapIndex(m, key) == CHOOSE j \in 1..Len(m) : m[j].key = key
MapGet(m, key) == m[MapIndex(m, key)]
MapDelete(m, key) == SelectSeq(m, LAMBDA en : en.key # key)
MapSet(m, en) ==
  IF MapHas(m, en.key)
    THEN [j \in 1..Len(m) |-> IF m[j].key = en.key THEN en ELSE m[j]]
    ELSE Append(m, en)

\* `now - entry.timestamp > entry.ttl`
Expired(en, t) == t - en.timestamp > en.ttl

(***************************************************************************)
(* cache.ts: the Cache class.  cfg is config.cache after the constructor.  *)
(***************************************************************************)
\* constructor: { maxEntries: 100, cleanupIntervalMs: 60000, ...config.cache }
CacheConfig(given) ==
  [enabled |-> given.enabled,
   ttlMs |-> given.ttlMs,
   maxEntries |-> Some(Nullish(given.maxEntries, 100)),
   cleanupIntervalMs |-> Some(Nullish(given.cleanupIntervalMs, 60000))]

\* (mutant) evicts the newest entry instead of the oldest
evictEntries_Newest(m) == IF m = <<>> THEN m ELSE MapDelete(m, m[Len(m)].key)

\* (mutant) nothing is evicted
evictEntries_Nothing(m) == m

\* evictEntries: delete this.cache.keys().next().value
evictEntries(m) == IF m = <<>> THEN m ELSE MapDelete(m, m[1].key)

\* (mutant) the requested TTL is not capped by the store maximum
CacheSetTtl_Uncapped(cfg, customTtl) == Nullish(customTtl, cfg.ttlMs)

\* the TTL Cache.set gives an entry
CacheSetTtl(cfg, customTtl) == Min2(Nullish(customTtl, cfg.ttlMs), cfg.ttlMs)

\* Cache.set: the map afterwards
CacheSetMap(m, cfg, t, key, data, customTtl) ==
  IF ~Truthy(cfg.enabled) THEN m
  ELSE LET room == IF Len(m) >= Nullish(cfg.maxEntries, 100)
                     THEN evictEntries(m) ELSE m
       IN  MapSet(room, CacheEntry(key, data, t, CacheSetTtl(cfg, customTtl)))

\* Cache.get: what it returns (<<>> for null) and the map afterwards
CacheGetResult(m, cfg, t, key) ==
  IF ~Truthy(cfg.enabled) \/ ~MapHas(m, key) THEN Undef
  ELSE IF Expired(MapGet(m, key), t) THEN Undef
  ELSE Some(MapGet(m, key).data)

\* (mutant) an expired entry is reported absent but left in the map
CacheGetMap_KeepsExpired(m, cfg, t, key) == m

CacheGetMap(m, cfg, t, key) ==
  IF Truthy(cfg.enabled) /\ MapHas(m, key) /\ Expired(MapGet(m, key), t)
    THEN MapDelete(m, key) ELSE m

\* (mutant) the sweep also removes the oldest entry that has not expired
CleanupMap_OneTooMany(m, t) ==
  LET kept == SelectSeq(m, LAMBDA en : ~Expired(en, t))
  IN  IF kept = <<>> THEN kept ELSE Tail(kept)

\* Cache.cleanup: the map afterwards
CleanupMap(m, t) == SelectSeq(m, LAMBDA en : ~Expired(en, t))

\* (mutant) entries are counted as valid whatever their age
CacheStats_AllValid(m, maxEntries, t) ==
  [total |-> Len(m), expired |-> 0, valid |-> Len(m), maxEntries |-> maxEntries]

\* Cache.getStats
CacheStats(m, maxEntries, t) ==
  LET expired == Cardinality({j \in 1..Len(m) : Expired(m[j], t)})
  IN  [total |-> Len(m), expired |-> expired, valid |-> Len(m) - expired,
       maxEntries |-> maxEntries]

(***************************************************************************)
(* N2YOClient (client.ts): configuration, cache, rate limiter.             *)
(* A config section is a record of optional fields, <<>> when not given.   *)
(***************************************************************************)
CacheSection(enabled, ttlMs, maxEntries) ==
  [enabled |-> enabled, ttlMs |-> ttlMs, maxEntries |-> maxEntries]
RateLimitSection(enabled, requestsPerHour, queueRequests) ==
  [enabled |-> enabled, requestsPerHour |-> requestsPerHour,
   queueRequests |-> queueRequests]

\* the defaults written in the constructor
DefaultCacheSection == CacheSection(Some(TRUE), Some(300000), Some(100))
DefaultRateLimitSection == RateLimitSection(Some(TRUE), Some(1000), Some(TRUE))

\* { ...defaults, ...section }: the fields the section has replace the defaults
Spread(defaults, section) ==
  IF section = Undef THEN defaults
  ELSE [f \in DOMAIN defaults |->
          IF section[1][f] # Undef THEN section[1][f] ELSE defaults[f]]

\* constructor: this.config = { debug, cache: {...}, rateLimit: {...},
\* ...config }.  The trailing ...config puts the caller's own cache and
\* rateLimit objects, when given, over the merged ones.
ConstructorConfig(given) ==
  LET merged == [cache |-> Spread(DefaultCacheSection, given.cache),
                 rateLimit |-> Spread(DefaultRateLimitSection, given.rateLimit)]
  IN  [cache |-> IF given.cache # Undef THEN given.cache[1] ELSE merged.cache,
       rateLimit |-> IF given.rateLimit # Undef THEN given.rateLimit[1]
                     ELSE merged.rateLimit]

\* JSON null, and JS truthiness of a payload (an object, or null)
JsNull == "null"
IsTruthy(v) == v # JsNull

\* now - entry.timestamp > entry.ttl; a comparison with undefined is false
EntryExpired(en, t) == en.ttl # Undef /\ t - en.timestamp > en.ttl[1]

\* getCachedResponse: the value returned
getCachedResponse(m, cfg, t, key) ==
  IF ~Truthy(cfg.cache.enabled) THEN JsNull
  ELSE IF ~MapHas(m, key) THEN JsNull
  ELSE IF EntryExpired(MapGet(m, key), t) THEN JsNull
  ELSE MapGet(m, key).data

\* getCachedResponse: the map it leaves
getCachedResponseMap(m, cfg, t, key) ==
  IF Truthy(cfg.cache.enabled) /\ MapHas(m, key) /\ EntryExpired(MapGet(m, key), t)
    THEN MapDelete(m, key)
    ELSE m

\* (mutant) the entry gets the default TTL whatever the operation passes
setCachedResponse_DefaultTtl(m, cfg, t, key, data, customTtl) ==
  IF ~Truthy(cfg.cache.enabled) THEN m
  ELSE LET room == IF Len(m) >= Nullish(cfg.cache.maxEntries, 100) /\ m # <<>>
                     THEN MapDelete(m, m[1].key)
                     ELSE m
       IN  MapSet(room, CacheEntry(key, data, t, cfg.cache.ttlMs))

\* setCachedResponse
setCachedResponse(m, cfg, t, key, data, customTtl) ==
  IF ~Truthy(cfg.cache.enabled) THEN m
  ELSE LET room == IF Len(m) >= Nullish(cfg.cache.maxEntries, 100) /\ m # <<>>
                     THEN MapDelete(m, m[1].key)
                     ELSE m
           ttl == IF customTtl # Undef THEN customTtl ELSE cfg.cache.ttlMs
       IN  MapSet(room, CacheEntry(key, data, t, ttl))

\* cleanupCache
cleanupCache(m, t) == SelectSeq(m, LAMBDA en : ~EntryExpired(en, t))

\* getCacheStats
getCacheStats(m, cfg, t) ==
  LET expired == Cardinality({j \in 1..Len(m) : EntryExpired(m[j], t)})
  IN  [total |-> Len(m), expired |-> expired, valid |-> Len(m) - expired,
       maxEntries |-> cfg.cache.maxEntries]

OneHour == 3600000

\* (mutant) no timestamp is dropped
PruneRequests_Keep(cfg, reqs, t) == reqs

\* the request timestamps isWithinRateLimit leaves
PruneRequests(cfg, reqs, t) ==
  IF ~Truthy(cfg.rateLimit.enabled) THEN reqs
  ELSE SelectSeq(reqs, LAMBDA timestamp : timestamp > t - OneHour)

\* isWithinRateLimit: the value returned
isWithinRateLimit(cfg, reqs, t) ==
  \/ ~Truthy(cfg.rateLimit.enabled)
  \/ Len(PruneRequests(cfg, reqs, t)) < Nullish(cfg.rateLimit.requestsPerHour, 1000)

\* (mutant) nothing is recorded
recordRequest_Nothing(cfg, reqs, t) == reqs

\* recordRequest
recordRequest(cfg, reqs, t) ==
  IF Truthy(cfg.rateLimit.enabled) THEN Append(reqs, t) ELSE reqs

\* (mutant) every recorded request is counted, however old
getRateLimitStats_CountsAll(cfg, reqs, q, t) ==
  [requestsThisHour |-> Len(reqs),
   requestsPerHourLimit |-> cfg.rateLimit.requestsPerHour,
   queuedRequests |-> Len(q),
   canMakeRequest |-> isWithinRateLimit(cfg, reqs, t)]

\* getRateLimitStats: the value returned
getRateLimitStats(cfg, reqs, q, t) ==
  [requestsThisHour |-> Len(SelectSeq(reqs, LAMBDA ts : ts > t - OneHour)),
   requestsPerHourLimit |-> cfg.rateLimit.requestsPerHour,
   queuedRequests |-> Len(q),
   canMakeRequest |-> isWithinRateLimit(cfg, reqs, t)]

\* (mutant) no operation passes a TTL of its own
TtlOf_StoreDefault(op) == Undef

\* the customCacheTtl each operation passes to makeRequest
TtlOf(op) ==
  CASE op = "getTle" -> Some(1800000)
    [] op = "getPositions" -> Some(120000)
    [] op = "getVisualPasses" -> Undef
    [] op = "getRadioPasses" -> Some(600000)
    [] op = "getAbove" -> Some(300000)

(***************************************************************************)
(* Upstream responses and what the caller gets.                            *)
(***************************************************************************)
\* payloads without a positions list: {info} and {info, positions: null}
LackingPositions == {"infoOnly", "infoNull"}

\* JSON bodies of a success: the full object, null, and the objects without
\* a positions list
Payloads == {"full", JsNull} \cup LackingPositions

\* the body of a top-level error object, {"error": "Invalid API Key!"}
ErrorObject == "errorObject"
\* bodies response.json() cannot parse: no text at all, text that is no JSON
UnparseableBodies == {"empty", "unparseable"}

Resp(status, body) == [status |-> status, body |-> body]
\* status: "ok" (2xx), "429", "403" and "500" (non-2xx other than 429),
\* "none" (fetch rejects: no response at all)
OtherStatuses == {"403", "500"}
Responses ==
  { Resp("ok", body) : body \in Payloads \cup {ErrorObject, "unparseable"} } \cup
  { Resp("429", body) : body \in {ErrorObject} \cup UnparseableBodies } \cup
  { Resp("403", body) : body \in {ErrorObject, "empty"} } \cup
  { Resp("500", "empty") } \cup
  { Resp("none", "") }

\* response.statusText: the reason phrase the server sent, 'Forbidden' with
\* the 403 and 'got null' with the 500 of the model
StatusText(resp) ==
  CASE resp.status = "403" -> "Forbidden"
    [] resp.status = "500" -> "got null"
    [] OTHER -> ""

\* `API request failed: ${detail}`
ApiRequestFailed(detail) == "API request failed: " \o detail

\* await response.json(): the value, or the SyntaxError thrown
ResponseJson(resp) ==
  IF resp.body \in UnparseableBodies
    THEN Fail(Err("SyntaxError", "Unexpected end of JSON input"))
    ELSE Ok(resp.body)

Resolve(value) == [settled |-> "resolve", value |-> value]
Reject(error) == [settled |-> "reject", error |-> error]

\* (mutant) a 429 is handled like any other non-2xx status: the structured
\* error of the body, when there is one, decides
makeActualRequestResult_BodyFirst(resp) ==
  CASE resp.status = "none" -> Reject(Err("TypeError", "fetch failed"))
    [] resp.status \in {"429"} \cup OtherStatuses ->
         IF resp.body = ErrorObject
           THEN Reject(N2YOError(ApiRequestFailed("")))
           ELSE Reject(RateLimitError("API rate limit exceeded"))
    [] OTHER ->
         IF ResponseJson(resp).ok THEN Resolve(ResponseJson(resp).v)
         ELSE Reject(ResponseJson(resp).error)

\* makeActualRequest after fetch has settled
makeActualRequestResult(resp) ==
  CASE resp.status = "none" -> Reject(Err("TypeError", "fetch failed"))
    [] resp.status = "429" ->
         Reject(RateLimitError("API rate limit exceeded"))
    [] resp.status \in OtherStatuses ->
         \* the N2YOError thrown with errorData.error is thrown inside the
         \* try whose bare catch throws the one with response.statusText
         Reject(N2YOError(ApiRequestFailed(StatusText(resp))))
    [] OTHER ->
         IF ResponseJson(resp).ok THEN Resolve(ResponseJson(resp).v)
         ELSE Reject(ResponseJson(resp).error)

\* (mutant) the payload is returned as received
WithEmptyPositions_AsReceived(value) == value

\* if (!response.positions) return { ...response, positions: [] }: the other
\* properties of the payload are those received
WithEmptyPositions(value) ==
  CASE value = ErrorObject -> "errorObject, positions: []"
    [] value \in LackingPositions -> "info, positions: []"
    [] OTHER -> value

\* SatelliteCategories: the names of the category IDs 0..56
SatelliteCategories ==
  << "Brightest", "ISS", "Weather", "NOAA", "GOES", "Earth resources",
     "Search & rescue", "Disaster monitoring",
     "Tracking and Data Relay Satellite System", "Geostationary", "Intelsat",
     "Gorizont", "Raduga", "Molniya", "Iridium", "Orbcomm", "Globalstar",
     "Amateur radio", "Experimental",
     "Global Positioning System (GPS) Operational", "Glonass Operational",
     "Galileo", "Satellite-Based Augmentation System",
     "Navy Navigation Satellite System", "Russian LEO Navigation",
     "Space & Earth Science", "Geodetic", "Engineering", "Education",
     "Military", "Radar Calibration", "CubeSats", "XM and Sirius", "TV",
     "Beidou Navigation System", "Yaogan", "Westford Needles", "Parus",
     "Strela", "Gonets", "Tsiklon", "Tsikada", "O3B Networks", "Tselina",
     "Celestis", "IRNSS", "QZSS", "Flock", "Lemur",
     "Global Positioning System (GPS) Constellation",
     "Glonass Constellation", "Starlink", "OneWeb", "Chinese Space Station",
     "Qianfan", "Kuiper" >>

\* getCategoryName: z.number().int().min(0).parse(categoryId), whose
\* ZodError (an issue with the empty path) is mapped to
\* InvalidParameterError; then SatelliteCategories[categoryId], undefined for
\* an ID the table does not have
getCategoryName(categoryId) ==
  LET failing == FailingChecks(CategoryIdSchema, categoryId) IN
  IF failing # {}
    THEN Fail(mapZodErrorToInvalidParameterError(
                [path |-> "", message |-> CategoryIdSchema[SetMin(failing)].msg]))
  ELSE IF categoryId.i = 0 THEN Ok(Some("All"))
  ELSE IF categoryId.i \in 1..Len(SatelliteCategories)
    THEN Ok(Some(SatelliteCategories[categoryId.i]))
  ELSE Ok(Undef)

\* this.getCategoryName(categoryId) || 'Unknown', in getAbove: categoryId
\* has passed GetAboveParamsSchema, which has the same rule for it, so
\* getCategoryName returns
CategoryOrUnknown(categoryId) ==
  IF getCategoryName(categoryId).v = Undef THEN "Unknown"
  ELSE getCategoryName(categoryId).v[1]

\* if (!response.passes) return { ...response, passes: [],
\* info: { ...response.info, passescount: 0 } }
WithEmptyPasses(value) ==
  CASE value = ErrorObject -> "errorObject, passes: [], info: {passescount: 0}"
    [] value = "infoOnly" -> "passes: [], info: {...info, passescount: 0}"
    [] value = "infoNull" ->
         "positions: null, passes: [], info: {...info, passescount: 0}"
    [] OTHER -> value

\* getAbove: a payload without info or without the list gives the category
\* name of the call, the transactions count of the info it has (0 without)
\* and no satellite; nothing else of the payload is kept
WithEmptyAbove(value, categoryId) ==
  CASE value = ErrorObject ->
         "info: {category: '" \o CategoryOrUnknown(categoryId)
           \o "', transactionscount: 0, satcount: 0}, above: []"
    [] value \in LackingPositions ->
         "info: {category: '" \o CategoryOrUnknown(categoryId)
           \o "', transactionscount: info.transactionscount || 0, satcount: 0}, above: []"
    [] OTHER -> value

\* the operation's handling of a payload that is an object
Normalised(c, value) ==
  CASE c.op = "getPositions" -> WithEmptyPositions(value)
    [] c.op \in {"getVisualPasses", "getRadioPasses"} -> WithEmptyPasses(value)
    [] c.op = "getAbove" -> WithEmptyAbove(value, c.args[5])

\* error instanceof N2YOError && error.message.includes('got null'), on the
\* errors makeRequest rejects with: RateLimitError extends N2YOError, its
\* message has no 'got null'
IncludesGotNull(error) ==
  /\ error.kind \in {"N2YOError", "RateLimitError"}
  /\ error.message = ApiRequestFailed("got null")

\* what the catch of the operation returns for such an error
Placeholder(c) ==
  CASE c.op = "getPositions" ->
         "info: {satcount: 0, transactionscount: 0, satid: 0, satname: ''}, positions: []"
    [] c.op \in {"getVisualPasses", "getRadioPasses"} ->
         "info: {passescount: 0, satid: " \o ToString(c.args[1].i)
           \o ", satname: '', transactionscount: 0}, passes: []"
    [] c.op = "getAbove" ->
         "info: {category: '" \o CategoryOrUnknown(c.args[5])
           \o "', transactionscount: 0, satcount: 0}, above: []"

\* what the public operation makes of makeRequest's outcome for the
\* validated call c: getTle returns the promise; the others read a property
\* of the payload (a TypeError on null, which their catch rethrows), fill in
\* what the payload lacks, and turn an N2YOError whose message includes
\* 'got null' into a placeholder result
Deliver(c, r) ==
  IF c.op = "getTle" THEN r
  ELSE IF r.settled = "reject"
    THEN IF IncludesGotNull(r.error) THEN Resolve(Placeholder(c)) ELSE r
  ELSE IF r.value = JsNull
    THEN Reject(Err("TypeError", "Cannot read properties of null"))
  ELSE Resolve(Normalised(c, r.value))

(***************************************************************************)
(* State.                                                                  *)
(*   Spec (client.ts):  config, now, cache, requests, queue, processing,   *)
(*                      drain, timers, inflight, fetchLog, nreq, ev        *)
(*   SpecCache (cache.ts): ccfg, cmap, ctimer, cnow, cev, csets, cticks    *)
(*   SpecPure:  pure                                                       *)
(***************************************************************************)
VARIABLES config, now, cache, requests, queue, processing, drain, timers,
          inflight, fetchLog, nreq, nticks, ev,
          ccfg, cmap, ctimer, cnow, cev, csets, cticks,
          pure

clientVars == <<config, now, cache, requests, queue, processing, drain, timers,
                inflight, fetchLog, nreq, nticks, ev>>
cacheVars == <<ccfg, cmap, ctimer, cnow, cev, csets, cticks>>
vars == <<clientVars, cacheVars, pure>>

(***************************************************************************)
(* SpecCache: one Cache object, its clock and its cleanup interval.        *)
(***************************************************************************)
\* the clock advances at most this many times, and at most this many
\* writes are made
MaxCacheTicks == 2
MaxCacheSets == 3

\* the clock advances by 150 ms or by 500 ms
CacheSteps == {150, 500}
CacheKeys == {"k1", "k2", "k3"}
\* the payloads are opaque: the n-th write stores the payload n
CacheData(n) == n
CustomTtls == {Undef, Some(100), Some(1000)}

GivenCache(enabled, ttlMs, maxEntries, cleanupIntervalMs) ==
  [enabled |-> enabled, ttlMs |-> ttlMs, maxEntries |-> maxEntries,
   cleanupIntervalMs |-> cleanupIntervalMs]

\* the config.cache objects the Cache is constructed with
GivenCaches ==
  { GivenCache(Some(TRUE), 1000, Undef, Some(60000)),
    GivenCache(Some(TRUE), 500, Some(2), Some(100)),
    GivenCache(Some(TRUE), 1000, Some(1), Undef),
    GivenCache(Some(FALSE), 1000, Some(2), Undef) }

CEv(type, key, result, flag) ==
  [type |-> type, key |-> key, result |-> result, flag |-> flag]

\* the other specifications' variables, at rest
ClientIdle ==
  /\ config = <<>> /\ now = 0 /\ cache = <<>> /\ requests = <<>>
  /\ queue = <<>> /\ processing = FALSE /\ drain = <<>> /\ timers = <<>>
  /\ inflight = {} /\ fetchLog = <<>> /\ nreq = 0 /\ nticks = 0 /\ ev = <<>>
CacheIdle ==
  /\ ccfg = <<>> /\ cmap = <<>> /\ ctimer = <<>> /\ cnow = 0 /\ cev = <<>>
  /\ csets = 0 /\ cticks = 0
PureIdle == pure = <<>>

\* constructor: the cleanup interval is set up when the cache is enabled
CacheInit ==
  /\ \E given \in GivenCaches :
       /\ ccfg = CacheConfig(given)
       /\ ctimer = IF Truthy(given.enabled)
                     THEN [active |-> TRUE,
                           due |-> Nullish(CacheConfig(given).cleanupIntervalMs, 60000)]
                     ELSE [active |-> FALSE, due |-> 0]
  /\ cmap = <<>>
  /\ cnow = 0
  /\ csets = 0
  /\ cticks = 0
  /\ cev = CEv("new", "", Undef, FALSE)
  /\ ClientIdle /\ PureIdle

\* Cache.set(key, data, customTtl); the event keeps customTtl, and its flag:
\* the key was new and the entry count had reached maxEntries
CacheSet(key, customTtl) ==
  /\ csets < MaxCacheSets
  /\ csets' = csets + 1
  /\ cmap' = CacheSetMap(cmap, ccfg, cnow, key, CacheData(csets + 1), customTtl)
  /\ cev' = CEv("set", key, customTtl,
                /\ Truthy(ccfg.enabled) /\ ~MapHas(cmap, key)
                /\ Len(cmap) >= Nullish(ccfg.maxEntries, 100))
  /\ UNCHANGED <<ccfg, ctimer, cnow, cticks>>
  /\ UNCHANGED <<clientVars, pure>>

\* Cache.get(key); the event's flag: the entry was there and had expired
CacheGet(key) ==
  /\ cmap' = CacheGetMap(cmap, ccfg, cnow, key)
  /\ cev' = CEv("get", key, CacheGetResult(cmap, ccfg, cnow, key),
                MapHas(cmap, key) /\ Expired(MapGet(cmap, key), cnow))
  /\ UNCHANGED <<ccfg, ctimer, cnow, csets, cticks>>
  /\ UNCHANGED <<clientVars, pure>>

\* the interval fires: Cache.cleanup(); the event's flag: an entry had
\* expired
CacheCleanup ==
  /\ ctimer.active /\ cnow >= ctimer.due
  /\ cmap' = CleanupMap(cmap, cnow)
  /\ ctimer' = [ctimer EXCEPT !.due = cnow + Nullish(ccfg.cleanupIntervalMs, 60000)]
  /\ cev' = CEv("cleanup", "interval", Undef,
                \E j \in 1..Len(cmap) : Expired(cmap[j], cnow))
  /\ UNCHANGED <<ccfg, cnow, csets, cticks>>
  /\ UNCHANGED <<clientVars, pure>>

\* Cache.cleanup() called by the program: the method is public, and tests
\* neither the interval nor cache.enabled
CacheCleanupCall ==
  /\ cmap' = CleanupMap(cmap, cnow)
  /\ cev' = CEv("cleanup", "call", Undef,
                \E j \in 1..Len(cmap) : Expired(cmap[j], cnow))
  /\ UNCHANGED <<ccfg, ctimer, cnow, csets, cticks>>
  /\ UNCHANGED <<clientVars, pure>>

\* (mutant) clear removes the expired entries only
CacheClear_ExpiredOnly ==
  /\ cmap' = CleanupMap(cmap, cnow)
  /\ cev' = CEv("clear", "", Undef, cmap # <<>>)
  /\ UNCHANGED <<ccfg, ctimer, cnow, csets, cticks>>
  /\ UNCHANGED <<clientVars, pure>>

\* Cache.clear(); the event's flag: the map held entries
CacheClear ==
  /\ cmap' = <<>>
  /\ cev' = CEv("clear", "", Undef, cmap # <<>>)
  /\ UNCHANGED <<ccfg, ctimer, cnow, csets, cticks>>
  /\ UNCHANGED <<clientVars, pure>>

\* Cache.getStats(); the event keeps the object returned
CacheGetStats ==
  /\ cev' = CEv("getStats", "", Some(CacheStats(cmap, ccfg.maxEntries, cnow)), FALSE)
  /\ UNCHANGED <<ccfg, cmap, ctimer, cnow, csets, cticks>>
  /\ UNCHANGED <<clientVars, pure>>

\* (mutant) destroy leaves the interval running
CacheDestroy_KeepsInterval ==
  /\ cev' = CEv("destroy", "", Undef, FALSE)
  /\ UNCHANGED <<ccfg, cmap, ctimer, cnow, csets, cticks>>
  /\ UNCHANGED <<clientVars, pure>>

\* Cache.destroy(): clearInterval
CacheDestroy ==
  /\ ctimer' = [ctimer EXCEPT !.active = FALSE]
  /\ cev' = CEv("destroy", "", Undef, FALSE)
  /\ UNCHANGED <<ccfg, cmap, cnow, csets, cticks>>
  /\ UNCHANGED <<clientVars, pure>>

\* time passes
CacheTick(d) ==
  /\ cticks < MaxCacheTicks
  /\ cticks' = cticks + 1
  /\ cnow' = cnow + d
  /\ cev' = CEv("tick", "", Undef, FALSE)
  /\ UNCHANGED <<ccfg, cmap, ctimer, csets>>
  /\ UNCHANGED <<clientVars, pure>>

CacheNext ==
  \/ \E key \in CacheKeys, customTtl \in CustomTtls : CacheSet(key, customTtl)
  \/ \E key \in CacheKeys : CacheGet(key)
  \/ CacheCleanup
  \/ CacheCleanupCall
  \/ CacheClear
  \/ CacheGetStats
  \/ CacheDestroy
  \/ \E d \in CacheSteps : CacheTick(d)

SpecCache == CacheInit /\ [][CacheNext]_vars

(***************************************************************************)
(* Claims about the Cache class, under SpecCache.                          *)
(***************************************************************************)
\* a key enters the map in this step only through set of that key
OnlySetCreates ==
  \A key \in CacheKeys :
    (~MapHas(cmap, key) /\ MapHas(cmap', key)) => (cev'.type = "set" /\ cev'.key = key)

\* what a get that has just returned says about the entry
GetReturnsFresh ==
  cev.type = "get" =>
    /\ (cev.result # Undef) <=> MapHas(cmap, cev.key)
    /\ MapHas(cmap, cev.key) =>
         /\ MapGet(cmap, cev.key).data = cev.result[1]
         /\ cnow - MapGet(cmap, cev.key).timestamp <= MapGet(cmap, cev.key).ttl

\* C4: get(key) returns a stored value only while now - storedAt <= ttl; for
\* an entry whose TTL has elapsed it returns null and removes the entry, and
\* the key stays absent until a new set of that key.
C4_GetWithinTtl == [](GetReturnsFresh) /\ [][OnlySetCreates]_vars

\* a get has just found an expired entry, returned null and removed it
C4_Witness ==
  /\ cev.type = "get" /\ cev.flag /\ cev.result = Undef
  /\ ~MapHas(cmap, cev.key) /\ cmap # <<>>

\* this step is a set of a new key into a map that has reached maxEntries
SetIntoFull ==
  /\ cev'.type = "set" /\ csets' = csets + 1
  /\ Truthy(ccfg.enabled)
  /\ ~MapHas(cmap, cev'.key)
  /\ Len(cmap) >= Nullish(ccfg.maxEntries, 100)

\* C5: a set of a new key into a cache whose entry count has reached
\* maxEntries removes exactly one entry, the one inserted earliest, and
\* leaves every other entry as it was; the new entry is stored.
C5_EvictsOldestInserted ==
  [][SetIntoFull =>
       /\ Len(cmap') = Len(cmap)
       /\ \A j \in 1..(Len(cmap) - 1) : cmap'[j] = cmap[j + 1]
       /\ cmap'[Len(cmap')].key = cev'.key
       /\ ~MapHas(cmap', cmap[1].key)]_vars

\* capacity 2: the third distinct key has just pushed the first one out
C5_Witness ==
  /\ cev.type = "set" /\ cev.flag /\ ccfg.maxEntries = Some(2)
  /\ Len(cmap) = 2 /\ csets = 3

\* this step is a set that stores an entry
SetStores == cev'.type = "set" /\ csets' = csets + 1 /\ Truthy(ccfg.enabled)

\* C6: the TTL of a written entry is the store default when ttl is omitted
\* and min(ttl, store maximum) otherwise, so no get returns an entry older
\* than the store maximum.
C6_TtlCapped ==
  /\ [][SetStores =>
          MapGet(cmap', cev'.key).ttl =
            IF cev'.result = Undef THEN ccfg.ttlMs
            ELSE IF cev'.result[1] <= ccfg.ttlMs THEN cev'.result[1]
            ELSE ccfg.ttlMs]_vars
  /\ [](cev.type = "get" /\ cev.result # Undef =>
          cnow - MapGet(cmap, cev.key).timestamp <= ccfg.ttlMs)

\* maximum 500 ms: an entry requested for 1000 ms has just been stored with
\* a TTL of 500 ms
C6_Witness ==
  /\ ccfg.ttlMs = 500 /\ cev.type = "set" /\ cev.result = Some(1000)
  /\ MapHas(cmap, cev.key) /\ MapGet(cmap, cev.key).ttl = 500

(***************************************************************************)
(* SpecPure: the argument checks and the cache-key derivation applied to   *)
(* inputs.  pure is [fn, in, rel, done, out]: the function, its input,     *)
(* how the two texts of the input are related, and the result once done.  *)
(***************************************************************************)
\* arguments every rule accepts
BaseArgs(op) ==
  CASE op = "getTle" -> << Num(25544) >>
    [] op = "getPositions" -> << Num(25544), Num(41), Num(-76), Num(0), Num(2) >>
    [] op = "getVisualPasses" ->
         << Num(25544), Num(41), Num(-76), Num(0), Num(2), Num(300) >>
    [] op = "getRadioPasses" ->
         << Num(25544), Num(41), Num(-76), Num(0), Num(2), Num(40) >>
    [] op = "getAbove" -> << Num(41), Num(-76), Num(0), Num(70), Num(18) >>

\* the values tried for a parameter: around the ends of its range
ValuesFor(name) ==
  CASE name = "id" -> { Num(-1), Num(0), Num(1), Half(25544) }
    [] name = "observerLat" ->
         { Num(-91), Half(-91), Num(-90), Num(90), Half(90), Num(91) }
    [] name = "observerLng" -> { Num(-181), Num(-180), Num(180), Num(181) }
    [] name = "observerAlt" -> { Num(-1001), Num(-1000), Num(10000), Num(10001) }
    [] name = "seconds" -> { Num(0), Half(0), Num(1), Half(1), Num(300), Half(300), Num(301) }
    [] name = "days" -> { Num(0), Half(0), Num(1), Half(1), Num(10), Half(10), Num(11) }
    [] name = "minVisibility" -> { Num(-1), Num(0), Half(0) }
    [] name = "minElevation" -> { Num(-1), Half(-1), Num(0) }
    [] name = "searchRadius" -> { Num(-1), Num(0), Num(90), Half(90) }
    [] name = "categoryId" -> { Num(-1), Num(0), Half(0) }

NumericOps == NetworkOps \ {"getTleByName"}
FieldsOf(op) == 1..Len(SchemaOf(op))

\* the calls that differ from the base arguments in one or two parameters
PureCalls ==
  { [op |-> op, args |-> BaseArgs(op)] : op \in NumericOps }
  \cup
  UNION { UNION { { [op |-> op, args |-> [BaseArgs(op) EXCEPT ![f] = v]] :
                     v \in ValuesFor(SchemaOf(op)[f].name) } :
                   f \in FieldsOf(op) } :
          op \in NumericOps }
  \cup
  UNION { UNION { { [op |-> op, args |-> [BaseArgs(op) EXCEPT ![f[1]] = v[1], ![f[2]] = v[2]]] :
                     v \in ValuesFor(SchemaOf(op)[f[1]].name) \X
                           ValuesFor(SchemaOf(op)[f[2]].name) } :
                   f \in {g \in FieldsOf(op) \X FieldsOf(op) : g[1] < g[2]} } :
          op \in {"getTle", "getPositions", "getAbove"} }
  \cup
  { [op |-> "getTleByName", args |-> << Name(name) >>] :
      name \in {"", "iss", "ISS", "hubble", "voyager"} }

\* the endpoint texts given to the key derivation
PureSegs ==
  { <<>>, << SegName("tle") >>, << SegName("tle"), SegNum(Num(25544)) >>,
    << SegName("rest"), SegName("tle"), SegNum(Num(25544)) >> }
PureParams ==
  { Param("alt", "0"), Param("lat", "41"), Param("apiKey", "K1"),
    Param("cb", "http://x") }
Credentials == {"K1", "K2"}

\* the sequences of distinct parameters
PureQueries ==
  { <<>> } \cup { << a >> : a \in PureParams }
  \cup { q \in [1..2 -> PureParams] : q[1] # q[2] }
  \cup { q \in [1..3 -> PureParams] : Cardinality({q[j] : j \in 1..3}) = 3 }

PureEndpoints ==
  { Endpoint(pre, bad, lead, segs, amp, query) :
      pre \in BOOLEAN, bad \in BOOLEAN, lead \in BOOLEAN, segs \in PureSegs,
      amp \in { <<>>, << "K1" >> }, query \in PureQueries }

\* the texts that differ from e only in the order of the query parameters
Reordered(e) ==
  { [e EXCEPT !.query = [j \in 1..Len(e.query) |-> e.query[perm[j]]]] :
      perm \in Permutations(1..Len(e.query)) }

\* ... only in the presence or the value of the credential
Recredentialed(e) ==
  { [e EXCEPT !.amp = <<>>, !.query = DeleteApiKey(e.query)] }
  \cup
  { [e EXCEPT !.amp = [j \in 1..Len(e.amp) |-> k],
              !.query = [j \in 1..Len(e.query) |->
                           IF e.query[j].n = "apiKey" THEN Param("apiKey", k)
                           ELSE e.query[j]]] :
      k \in Credentials }

\* ... only in the scheme-and-host prefix; a text that is no URL has none
Reprefixed(e) == IF e.bad THEN {e} ELSE { [e EXCEPT !.pre = ~e.pre] }

Relations == {"order", "credential", "prefix"}
Variants(e, rel) ==
  CASE rel = "order" -> Reordered(e)
    [] rel = "credential" -> Recredentialed(e)
    [] rel = "prefix" -> Reprefixed(e)

(***************************************************************************)
(* utcToLocal (client.ts) and UtcToLocalParamsSchema.  A formatted time is *)
(* [instant, zone, suffix]: the wall-clock time of the instant in the      *)
(* zone, followed by the suffix.                                           *)
(***************************************************************************)
\* finite timestamps, in seconds
Timestamps == {0, 1711987840}
TimeZones == {"", "UTC", "utc", "America/New_York", "Invalid/Timezone"}

\* Intl.supportedValuesOf('timeZone'), on the names above
SupportedTimeZones == {"America/New_York"}

\* the first issue of UtcToLocalParamsSchema.parse for a finite timestamp
UtcToLocalIssues(timeZone) ==
  IF timeZone = ""
    THEN << [path |-> "timeZone", message |-> "Time zone must not be empty"] >>
  ELSE IF ~(ToUpperCase(timeZone) = "UTC" \/ timeZone \in SupportedTimeZones)
    THEN << [path |-> "timeZone", message |-> "Invalid IANA time zone"] >>
  ELSE <<>>

\* `${date.toISOString().replace('T', ' ').slice(0, 19)} UTC`
IsoUtc(utcTimestamp) ==
  [instant |-> utcTimestamp, zone |-> "UTC", suffix |-> " UTC"]

\* `${year}-${month}-${day} ${hour}:${minute}:${second}` of formatToParts
FormatInZone(utcTimestamp, timeZone) ==
  [instant |-> utcTimestamp, zone |-> timeZone, suffix |-> ""]

\* new Intl.DateTimeFormat('en-US', { timeZone, ... }) throws a RangeError
\* for a zone it does not know
DateTimeFormatAccepts(timeZone) ==
  timeZone \in SupportedTimeZones \cup {"UTC", "utc"}

\* utcToLocal: the string returned or the error thrown, and the messages
\* given to debugLog
utcToLocal(utcTimestamp, timeZone) ==
  IF UtcToLocalIssues(timeZone) # <<>>
    THEN [ok |-> FALSE,
          error |-> mapZodErrorToInvalidParameterError(UtcToLocalIssues(timeZone)[1]),
          log |-> <<>>]
  ELSE IF ToUpperCase(timeZone) = "UTC"
    THEN [ok |-> TRUE, v |-> IsoUtc(utcTimestamp), log |-> <<>>]
  ELSE IF DateTimeFormatAccepts(timeZone)
    THEN [ok |-> TRUE, v |-> FormatInZone(utcTimestamp, timeZone), log |-> <<>>]
  ELSE [ok |-> TRUE, v |-> IsoUtc(utcTimestamp),
        log |-> << "Failed to format time zone. Falling back to UTC." >>]

\* the requests whose keys are compared: the passes of the ISS as seen and
\* as heard from the same place, its elements and those of another
\* satellite, its positions, and what is above the place
PassArgs == << Num(25544), Num(40), Num(-75), Num(0), Num(7), Num(30) >>
KeyCalls ==
  { [op |-> "getVisualPasses", args |-> PassArgs],
    [op |-> "getRadioPasses", args |-> PassArgs],
    [op |-> "getTle", args |-> << Num(25544) >>],
    [op |-> "getTle", args |-> << Num(20580) >>],
    [op |-> "getPositions", args |-> BaseArgs("getPositions")],
    [op |-> "getAbove", args |-> BaseArgs("getAbove")] }

\* the calls whose outcome is followed from the response to the caller: one
\* of each operation, and getAbove for the first category, the last and one
\* the table does not have
DeliverCalls ==
  KeyCalls \cup
  { [op |-> "getAbove",
     args |-> [BaseArgs("getAbove") EXCEPT ![5] = Num(categoryId)]] :
      categoryId \in {0, 1, 56, 57} }

\* an input is drawn: a call, a text and one related to it, a text, two
\* calls, a call and the response to its fetch, a category ID, or a
\* timestamp and a zone name
PureInit ==
  /\ ClientIdle /\ CacheIdle
  /\ \/ \E c \in PureCalls :
          pure = [fn |-> "Validate", in |-> c, rel |-> "", done |-> FALSE,
                  out |-> <<>>]
     \/ \E e \in PureEndpoints, rel \in Relations : \E e2 \in Variants(e, rel) :
          pure = [fn |-> "Cache.getCacheKey", in |-> << e, e2 >>, rel |-> rel,
                  done |-> FALSE, out |-> <<>>]
     \/ \E e \in PureEndpoints :
          pure = [fn |-> "getCacheKey twice", in |-> e, rel |-> "",
                  done |-> FALSE, out |-> <<>>]
     \/ \E c1 \in KeyCalls, c2 \in KeyCalls :
          pure = [fn |-> "keys of two requests", in |-> << c1, c2 >>,
                  rel |-> "", done |-> FALSE, out |-> <<>>]
     \/ \E c \in DeliverCalls, resp \in Responses :
          pure = [fn |-> "Deliver", in |-> << c, resp >>, rel |-> "",
                  done |-> FALSE, out |-> <<>>]
     \/ \E categoryId \in {Num(-2), Half(-2), Num(-1), Half(-1), Num(0),
                            Half(0), Num(1), Half(1), Num(18), Num(56),
                            Num(57), Num(60)} :
          pure = [fn |-> "getCategoryName", in |-> categoryId, rel |-> "",
                  done |-> FALSE, out |-> <<>>]
     \/ \E utcTimestamp \in Timestamps, timeZone \in TimeZones :
          pure = [fn |-> "utcToLocal", in |-> << utcTimestamp, timeZone >>,
                  rel |-> "", done |-> FALSE, out |-> <<>>]

\* the argument checks of the call
PureValidate ==
  /\ pure.fn = "Validate" /\ ~pure.done
  /\ pure' = [pure EXCEPT !.done = TRUE, !.out = Validate(pure.in)]
  /\ UNCHANGED <<clientVars, cacheVars>>

\* Cache.getCacheKey on the two texts
PureCacheGetCacheKey ==
  /\ pure.fn = "Cache.getCacheKey" /\ ~pure.done
  /\ pure' = [pure EXCEPT !.done = TRUE,
                          !.out = << CacheGetCacheKey(pure.in[1]),
                                     CacheGetCacheKey(pure.in[2]) >>]
  /\ UNCHANGED <<clientVars, cacheVars>>

\* each key derivation on the text, and again on the key it gave
PureKeyTwice ==
  /\ pure.fn = "getCacheKey twice" /\ ~pure.done
  /\ pure' = [pure EXCEPT
       !.done = TRUE,
       !.out = [cache |-> << CacheGetCacheKey(pure.in),
                             CacheGetCacheKey(CacheGetCacheKey(pure.in)) >>,
                normalize |-> << normalizeKey(pure.in),
                                 normalizeKey(normalizeKey(pure.in)) >>,
                client |-> << getCacheKey(pure.in),
                              getCacheKey(getCacheKey(pure.in)) >>]]
  /\ UNCHANGED <<clientVars, cacheVars>>

\* the endpoints the two calls hand to makeRequest, and the keys http.ts
\* (cache.getCacheKey) and the client (this.getCacheKey) derive from them
PureKeysOfTwo ==
  /\ pure.fn = "keys of two requests" /\ ~pure.done
  /\ LET v == [j \in 1..2 |-> Validate(pure.in[j])]
          e == [j \in 1..2 |-> IF v[j].ok THEN <<EndpointOf(v[j].v)>> ELSE <<>>]
     IN  pure' = [pure EXCEPT
           !.done = TRUE,
           !.out = [endpoints |-> e,
                    cache |-> [j \in 1..2 |->
                                 IF v[j].ok THEN <<CacheGetCacheKey(e[j][1])>>
                                 ELSE <<>>],
                    client |-> [j \in 1..2 |->
                                  IF v[j].ok THEN <<getCacheKey(e[j][1])>>
                                  ELSE <<>>]]]
  /\ UNCHANGED <<clientVars, cacheVars>>

\* what the caller of the operation gets when the fetch of the call settles
\* with the response
PureDeliver ==
  /\ pure.fn = "Deliver" /\ ~pure.done
  /\ pure' = [pure EXCEPT
       !.done = TRUE,
       !.out = Deliver(Validate(pure.in[1]).v,
                       makeActualRequestResult(pure.in[2]))]
  /\ UNCHANGED <<clientVars, cacheVars>>

\* getCategoryName on the category ID
PureGetCategoryName ==
  /\ pure.fn = "getCategoryName" /\ ~pure.done
  /\ pure' = [pure EXCEPT !.done = TRUE, !.out = getCategoryName(pure.in)]
  /\ UNCHANGED <<clientVars, cacheVars>>

\* utcToLocal on the timestamp and the zone name
PureUtcToLocal ==
  /\ pure.fn = "utcToLocal" /\ ~pure.done
  /\ pure' = [pure EXCEPT !.done = TRUE,
                          !.out = utcToLocal(pure.in[1], pure.in[2])]
  /\ UNCHANGED <<clientVars, cacheVars>>

PureNext ==
  \/ PureValidate
  \/ PureCacheGetCacheKey
  \/ PureKeyTwice
  \/ PureKeysOfTwo
  \/ PureDeliver
  \/ PureGetCategoryName
  \/ PureUtcToLocal

SpecPure == PureInit /\ [][PureNext]_vars

(***************************************************************************)
(* Claims about the pure functions, under SpecPure.                        *)
(***************************************************************************)
Validated == pure.fn = "Validate" /\ pure.done
KeysDerived == pure.fn = "Cache.getCacheKey" /\ pure.done

\* C7: the keys derived from two endpoints that differ only in the order of
\* the query parameters, in the presence or value of the apiKey credential,
\* or in a scheme-and-host prefix are the same, and no key contains the
\* credential.
C7_KeyIgnoresOrderCredentialPrefix ==
  KeysDerived =>
    /\ pure.out[1] = pure.out[2]
    /\ CredentialsIn(pure.out[1]) = {}
    /\ CredentialsIn(pure.out[2]) = {}

\* lo <= x <= hi
InClosed(x, lo, hi) ==
  /\ x.i >= lo
  /\ x.i < hi \/ (x.i = hi /\ ~x.h)

\* the position of the parameter called name in the call c, 0 if it has none
ArgIndex(c, name) ==
  IF c.op = "getTleByName" THEN 0
  ELSE LET hits == {f \in FieldsOf(c.op) : SchemaOf(c.op)[f].name = name}
       IN  IF hits = {} THEN 0 ELSE CHOOSE f \in hits : TRUE

\* the call gives the parameter called name a value the rule (lo, hi,
\* whole numbers only or not) allows; true when the call has no such parameter
WithinRule(c, name, lo, hi, whole) ==
  LET f == ArgIndex(c, name) IN
    f # 0 => /\ InClosed(c.args[f], lo, hi)
             /\ whole => ~c.args[f].h

\* the call differs from the base arguments at most in the parameter name
OnlyVaries(c, name) ==
  LET f == ArgIndex(c, name) IN
    /\ f # 0
    /\ \A g \in FieldsOf(c.op) \ {f} : c.args[g] = BaseArgs(c.op)[g]

\* C9: latitude is accepted exactly on [-90, 90], seconds exactly on the
\* integers of [1, 300], days exactly on the integers of [1, 10]: an
\* accepted call has them in range, and a call whose other arguments are
\* valid is accepted when they are.
C9_ClosedRanges ==
  Validated =>
    LET c == pure.in IN
      /\ pure.out.ok =>
           /\ WithinRule(c, "observerLat", -90, 90, FALSE)
           /\ WithinRule(c, "seconds", 1, 300, TRUE)
           /\ WithinRule(c, "days", 1, 10, TRUE)
      /\ (OnlyVaries(c, "observerLat") /\ WithinRule(c, "observerLat", -90, 90, FALSE))
           => pure.out.ok
      /\ (OnlyVaries(c, "seconds") /\ WithinRule(c, "seconds", 1, 300, TRUE))
           => pure.out.ok
      /\ (OnlyVaries(c, "days") /\ WithinRule(c, "days", 1, 10, TRUE))
           => pure.out.ok

\* latitude 90 exactly has been accepted by getPositions
C9_Witness ==
  /\ Validated /\ pure.in.op = "getPositions" /\ pure.out.ok
  /\ pure.in.args[2] = Num(90) /\ pure.in.args[5] = Num(2)

\* the value the caller supplied for the parameter the error is about
Supplied(c) ==
  IF c.op = "getTleByName" THEN StringValue(c.args[1].s)
  ELSE NumberValue(c.args[FirstIssue(SchemaOf(c.op), c.args).field])

\* C10: the InvalidParameterError of a failed validation names the parameter
\* of the first violated rule, carries the value the caller supplied for it
\* and the rule's reason; getTle(-1) gives
\* 'Invalid parameter id: -1. NORAD ID must be positive'.
C10_ErrorCarriesSuppliedValue ==
  (Validated /\ ~pure.out.ok) =>
    LET c == pure.in
        err == pure.out.error
    IN  /\ err.kind = "InvalidParameterError"
        /\ err.value = Supplied(c)
        /\ c.op = "getTleByName" => err.param = "name"
        /\ c.op # "getTleByName" =>
             /\ err.param = FirstIssue(SchemaOf(c.op), c.args).path
             /\ err.reason = FirstIssue(SchemaOf(c.op), c.args).message
        /\ (c.op = "getTle" /\ c.args = << Num(-1) >>) =>
             err = InvalidParameterError("id", NumberValue(Num(-1)),
                                         "NORAD ID must be positive")

(***************************************************************************)
(* Spec: one N2YOClient, its callers, the upstream and the clock.          *)
(*   config     this.config after the constructor                          *)
(*   now        Date.now()                                                 *)
(*   cache      this.cache                                                 *)
(*   requests, queue, processing   this.rateLimitState                     *)
(*   drain      where processQueue's loop stands: idle, awaiting the       *)
(*              request it dequeued, or in the pause after it              *)
(*   timers     the pending setTimeout(processQueue, 1000) due times, and  *)
(*              the cleanup interval                                       *)
(*   inflight   the fetch calls that have not settled                      *)
(*   fetchLog   the start time of every fetch made                         *)
(*   nreq       the public calls made so far; a call's id                  *)
(*   ev         the last step taken and what the caller got                *)
(***************************************************************************)
\* at most this many public calls are made, and the clock advances at most
\* this many times
MaxReqs == 2
MaxTicks == 2

\* the clock advances by the re-check delay or by the window
ClockSteps == {1000, OneHour}

Given(cacheSection, rateLimitSection) ==
  [cache |-> cacheSection, rateLimit |-> rateLimitSection]

\* the config objects the client is constructed with
GivenConfigs ==
  { Given(Undef, Some(RateLimitSection(Some(TRUE), Some(1), Some(FALSE)))),
    Given(Undef, Some(RateLimitSection(Undef, Some(1), Some(FALSE)))),
    Given(Undef, Some(RateLimitSection(Some(FALSE), Some(1), Some(TRUE)))),
    Given(Some(CacheSection(Some(FALSE), Some(1000), Some(1))),
          Some(RateLimitSection(Some(TRUE), Some(1), Some(FALSE)))),
    Given(Some(CacheSection(Some(TRUE), Some(1000), Some(1))),
          Some(RateLimitSection(Some(TRUE), Some(1), Some(TRUE)))) }

Call_(op, args) == [op |-> op, args |-> args]

ValidCalls ==
  { Call_("getTle", << Num(25544) >>),
    Call_("getPositions", BaseArgs("getPositions")) }

\* one call of each operation that breaks one of its rules
InvalidCalls ==
  { Call_("getTle", << Num(-1) >>),
    Call_("getTleByName", << Name("") >>),
    Call_("getTleByName", << Name("voyager") >>),
    Call_("getPositions", [BaseArgs("getPositions") EXCEPT ![2] = Num(91)]),
    Call_("getVisualPasses", [BaseArgs("getVisualPasses") EXCEPT ![5] = Num(0)]),
    Call_("getRadioPasses", [BaseArgs("getRadioPasses") EXCEPT ![6] = Num(-1)]),
    Call_("getAbove", [BaseArgs("getAbove") EXCEPT ![4] = Num(91)]) }

ClientCalls == ValidCalls \cup InvalidCalls

NoCall == Call_("", <<>>)
Ev(type, c, id, outcome) == [type |-> type, c |-> c, id |-> id, outcome |-> outcome]
Step(type) == Ev(type, NoCall, 0, <<>>)

\* a request between fetch(url) and the handling of its response.  status:
\* "" while fetch has not settled, then the status of the response whose
\* body is being read (await response.json())
Fetch(id, c, via) == [id |-> id, c |-> c, via |-> via, status |-> ""]
Queued(id, c) == [id |-> id, c |-> c]

DrainIdle == [pc |-> "idle", due |-> 0]
DrainFetch == [pc |-> "fetch", due |-> 0]
DrainPause(due) == [pc |-> "pause", due |-> due]

\* a due time put into the ascending list of due times
InsertDue(s, d) ==
  LET k == Cardinality({j \in 1..Len(s) : s[j] <= d})
  IN  SubSeq(s, 1, k) \o << d >> \o SubSeq(s, k + 1, Len(s))

\* the state after new N2YOClient(apiKey, given), given one of configs
InitWith(configs) ==
  /\ \E given \in configs :
       /\ config = ConstructorConfig(given)
       /\ timers = [recheck |-> <<>>,
                    cleanup |-> IF Truthy(ConstructorConfig(given).cache.enabled)
                                  THEN Some(60000) ELSE Undef]
  /\ now = 0
  /\ cache = <<>>
  /\ requests = <<>>
  /\ queue = <<>>
  /\ processing = FALSE
  /\ drain = DrainIdle
  /\ inflight = {}
  /\ fetchLog = <<>>
  /\ nreq = 0
  /\ nticks = 0
  /\ ev = Step("new")
  /\ CacheIdle /\ PureIdle

Init == InitWith(GivenConfigs)

\* (mutant) the request taken stays at the head of the queue
DrainLoop_KeepsHead(rest) ==
  IF queue # <<>> /\ isWithinRateLimit(config, requests, now)
    THEN /\ processing' = TRUE
         /\ queue' = queue
         /\ requests' = recordRequest(config, PruneRequests(config, requests, now), now)
         /\ inflight' = inflight \cup {Fetch(Head(queue).id, Head(queue).c, "drain")}
         /\ fetchLog' = Append(fetchLog, now)
         /\ drain' = DrainFetch
         /\ timers' = [timers EXCEPT !.recheck = rest]
    ELSE /\ processing' = FALSE
         /\ requests' = IF queue # <<>> THEN PruneRequests(config, requests, now)
                        ELSE requests
         /\ drain' = DrainIdle
         /\ timers' = [timers EXCEPT !.recheck =
                         IF queue # <<>> THEN InsertDue(rest, now + 1000) ELSE rest]
         /\ UNCHANGED <<queue, inflight, fetchLog>>

\* (mutant) the drain loop starts the request without recording it
DrainLoop_NoRecord(rest) ==
  IF queue # <<>> /\ isWithinRateLimit(config, requests, now)
    THEN /\ processing' = TRUE
         /\ queue' = Tail(queue)
         /\ requests' = PruneRequests(config, requests, now)
         /\ inflight' = inflight \cup {Fetch(Head(queue).id, Head(queue).c, "drain")}
         /\ fetchLog' = Append(fetchLog, now)
         /\ drain' = DrainFetch
         /\ timers' = [timers EXCEPT !.recheck = rest]
    ELSE /\ processing' = FALSE
         /\ requests' = IF queue # <<>> THEN PruneRequests(config, requests, now)
                        ELSE requests
         /\ drain' = DrainIdle
         /\ timers' = [timers EXCEPT !.recheck =
                         IF queue # <<>> THEN InsertDue(rest, now + 1000) ELSE rest]
         /\ UNCHANGED <<queue, inflight, fetchLog>>

\* processQueue from the loop condition on, processing being set: either the
\* head of the queue is taken and its request started (recordRequest, fetch),
\* or the loop ends, the flag is cleared and, the queue not being empty, a
\* re-check is scheduled.  rest: the re-check timers still pending.
DrainLoop(rest) ==
  IF queue # <<>> /\ isWithinRateLimit(config, requests, now)
    THEN /\ processing' = TRUE
         /\ queue' = Tail(queue)
         /\ requests' = recordRequest(config, PruneRequests(config, requests, now), now)
         /\ inflight' = inflight \cup {Fetch(Head(queue).id, Head(queue).c, "drain")}
         /\ fetchLog' = Append(fetchLog, now)
         /\ drain' = DrainFetch
         /\ timers' = [timers EXCEPT !.recheck = rest]
    ELSE /\ processing' = FALSE
         /\ requests' = IF queue # <<>> THEN PruneRequests(config, requests, now)
                        ELSE requests
         /\ drain' = DrainIdle
         /\ timers' = [timers EXCEPT !.recheck =
                         IF queue # <<>> THEN InsertDue(rest, now + 1000) ELSE rest]
         /\ UNCHANGED <<queue, inflight, fetchLog>>

\* (mutant) the processing flag is not consulted: a second loop may start
processQueue_Reentrant(rest) ==
  IF queue = <<>>
    THEN /\ timers' = [timers EXCEPT !.recheck = rest]
         /\ UNCHANGED <<processing, queue, requests, inflight, fetchLog, drain>>
    ELSE DrainLoop(rest)

\* processQueue()
processQueue(rest) ==
  IF processing \/ queue = <<>>
    THEN /\ timers' = [timers EXCEPT !.recheck = rest]
         /\ UNCHANGED <<processing, queue, requests, inflight, fetchLog, drain>>
    ELSE DrainLoop(rest)

\* (mutant) the request is put at the front of the queue
Enqueue_Front(id, c) ==
  /\ queue' = << Queued(id, c) >> \o queue
  /\ requests' = PruneRequests(config, requests, now)
  /\ timers' = IF processing THEN timers
               ELSE [timers EXCEPT !.recheck = InsertDue(@, now + 1000)]
  /\ UNCHANGED <<processing, inflight, fetchLog, drain>>

\* makeRequest finds the window full and queueing on: the request is pushed
\* and processQueue() called, which finds the window as full as it was
Enqueue(id, c) ==
  /\ queue' = Append(queue, Queued(id, c))
  /\ requests' = PruneRequests(config, requests, now)
  /\ timers' = IF processing THEN timers
               ELSE [timers EXCEPT !.recheck = InsertDue(@, now + 1000)]
  /\ UNCHANGED <<processing, inflight, fetchLog, drain>>

\* A public network operation is called: validation, then makeRequest up to
\* its first await.  made: the call as the caller wrote it; max: the number
\* of calls the callers make at most.
CallAs(c, made, max) ==
  LET v == Validate(c)
      id == nreq + 1
  IN
  /\ nreq < max
  /\ nreq' = id
  /\ UNCHANGED <<config, now, nticks>>
  /\ IF ~v.ok
    THEN /\ ev' = Ev("call", made, id, Reject(v.error))
         /\ UNCHANGED <<cache, requests, queue, processing, drain, timers,
                        inflight, fetchLog>>
    ELSE
      LET cacheKey == getCacheKey(EndpointOf(v.v))
          cached == getCachedResponse(cache, config, now, cacheKey)
      IN
      /\ cache' = getCachedResponseMap(cache, config, now, cacheKey)
      /\ IF IsTruthy(cached)
           THEN /\ ev' = Ev("call", made, id, Deliver(v.v, Resolve(cached)))
                /\ UNCHANGED <<requests, queue, processing, drain, timers,
                               inflight, fetchLog>>
         ELSE IF ~isWithinRateLimit(config, requests, now)
           THEN IF ~Truthy(config.rateLimit.queueRequests)
                  THEN /\ ev' = Ev("call", made, id,
                                   Reject(RateLimitError(
                                     "Rate limit exceeded and queueing is disabled")))
                       /\ requests' = PruneRequests(config, requests, now)
                       /\ UNCHANGED <<queue, processing, drain, timers,
                                      inflight, fetchLog>>
                  ELSE /\ ev' = Ev("call", made, id, [settled |-> "queued"])
                       /\ Enqueue(id, v.v)
           ELSE /\ ev' = Ev("call", made, id, [settled |-> "fetching"])
                /\ requests' = recordRequest(config,
                                 PruneRequests(config, requests, now), now)
                /\ inflight' = inflight \cup {Fetch(id, v.v, "direct")}
                /\ fetchLog' = Append(fetchLog, now)
                /\ UNCHANGED <<queue, processing, drain, timers>>
  /\ UNCHANGED <<cacheVars, pure>>

CallWithin(c, max) == CallAs(c, c, max)

Call(c) == CallWithin(c, MaxReqs)

\* the statuses of the responses whose body makeActualRequest reads: every
\* status but 429
StatusesRead == {"ok"} \cup OtherStatuses

\* await fetch(url) settles with a response whose body will be read: the
\* status line is there and makeActualRequest goes on to await
\* response.json(); nothing else changes until the body has been read
FetchResponds(f, status) ==
  /\ f.status = "" /\ status \in StatusesRead
  /\ inflight' = (inflight \ {f}) \cup {[f EXCEPT !.status = status]}
  /\ ev' = Ev("response", f.c, f.id, [settled |-> "reading"])
  /\ UNCHANGED <<config, now, cache, requests, queue, processing, drain,
                 timers, fetchLog, nreq, nticks>>
  /\ UNCHANGED <<cacheVars, pure>>

\* The response resp is handled: when fetch rejects or settles with status
\* 429 (the body is not read), or when the body of a response with another
\* status has been read.  The rest of makeActualRequest, the operation's own
\* handling, and for a request of the drain loop the resolve or reject and
\* the start of the 100 ms pause.
FetchDone(f, resp) ==
  LET r == makeActualRequestResult(resp) IN
  /\ IF resp.status \in StatusesRead THEN f.status = resp.status
                                      ELSE f.status = ""
  /\ inflight' = inflight \ {f}
  /\ cache' = IF r.settled = "resolve"
                THEN setCachedResponse(cache, config, now,
                                       getCacheKey(EndpointOf(f.c)), r.value,
                                       TtlOf(f.c.op))
                ELSE cache
  /\ drain' = IF f.via = "drain" THEN DrainPause(now + 100) ELSE drain
  /\ ev' = [type |-> "done", c |-> f.c, id |-> f.id,
            outcome |-> Deliver(f.c, r), resp |-> resp]
  /\ UNCHANGED <<config, now, requests, queue, processing, timers, fetchLog,
                 nreq, nticks>>
  /\ UNCHANGED <<cacheVars, pure>>

\* (mutant) the loop goes on without waiting for the pause to end
PauseDone_NoWait ==
  /\ drain.pc = "pause"
  /\ DrainLoop(timers.recheck)
  /\ ev' = Step("pause")
  /\ UNCHANGED <<config, now, cache, nreq, nticks>>
  /\ UNCHANGED <<cacheVars, pure>>

\* the pause of the drain loop is over: the loop condition again
PauseDone ==
  /\ drain.pc = "pause" /\ now >= drain.due
  /\ DrainLoop(timers.recheck)
  /\ ev' = Step("pause")
  /\ UNCHANGED <<config, now, cache, nreq, nticks>>
  /\ UNCHANGED <<cacheVars, pure>>

\* a setTimeout(() => this.processQueue(), 1000) fires
RecheckFires ==
  /\ timers.recheck # <<>> /\ now >= Head(timers.recheck)
  /\ processQueue(Tail(timers.recheck))
  /\ ev' = Step("recheck")
  /\ UNCHANGED <<config, now, cache, nreq, nticks>>
  /\ UNCHANGED <<cacheVars, pure>>

\* the setInterval(() => this.cleanupCache(), 60000) fires
CleanupFires ==
  /\ timers.cleanup # Undef /\ now >= timers.cleanup[1]
  /\ cache' = cleanupCache(cache, now)
  /\ timers' = [timers EXCEPT !.cleanup = Some(now + 60000)]
  /\ ev' = Step("cleanup")
  /\ UNCHANGED <<config, now, requests, queue, processing, drain, inflight,
                 fetchLog, nreq, nticks>>
  /\ UNCHANGED <<cacheVars, pure>>

\* clearCache()
ClearCache ==
  /\ nreq < MaxReqs
  /\ nreq' = nreq + 1
  /\ cache' = <<>>
  /\ ev' = Step("clearCache")
  /\ UNCHANGED <<config, now, requests, queue, processing, drain, timers,
                 inflight, fetchLog, nticks>>
  /\ UNCHANGED <<cacheVars, pure>>

\* getCacheStats()
GetCacheStats ==
  /\ nreq < MaxReqs
  /\ nreq' = nreq + 1
  /\ ev' = Ev("getCacheStats", NoCall, 0, getCacheStats(cache, config, now))
  /\ UNCHANGED <<config, now, cache, requests, queue, processing, drain, timers,
                 inflight, fetchLog, nticks>>
  /\ UNCHANGED <<cacheVars, pure>>

\* getRateLimitStats(): canMakeRequest calls isWithinRateLimit, which prunes.
\* max: the number of calls the callers make at most.
GetRateLimitStatsWithin(max) ==
  /\ nreq < max
  /\ nreq' = nreq + 1
  /\ ev' = Ev("getRateLimitStats", NoCall, 0,
              getRateLimitStats(config, requests, queue, now))
  /\ requests' = PruneRequests(config, requests, now)
  /\ UNCHANGED <<config, now, cache, queue, processing, drain, timers,
                 inflight, fetchLog, nticks>>
  /\ UNCHANGED <<cacheVars, pure>>

GetRateLimitStats == GetRateLimitStatsWithin(MaxReqs)

\* time passes
Tick(d) ==
  /\ nticks < MaxTicks
  /\ nticks' = nticks + 1
  /\ now' = now + d
  /\ ev' = Step("tick")
  /\ UNCHANGED <<config, cache, requests, queue, processing, drain, timers,
                 inflight, fetchLog, nreq>>
  /\ UNCHANGED <<cacheVars, pure>>

Next ==
  \/ \E c \in ClientCalls : Call(c)
  \/ \E f \in inflight, status \in StatusesRead : FetchResponds(f, status)
  \/ \E f \in inflight, resp \in Responses : FetchDone(f, resp)
  \/ PauseDone
  \/ RecheckFires
  \/ CleanupFires
  \/ ClearCache
  \/ GetCacheStats
  \/ GetRateLimitStats
  \/ \E d \in ClockSteps : Tick(d)

Spec == Init /\ [][Next]_vars

(***************************************************************************)
(* SpecQueue: the same client with queueing on and a ceiling of one        *)
(* request per hour, callers that make more calls, and the scheduling the  *)
(* event loop gives: a due timer fires, a pending fetch settles, and time  *)
(* passes.                                                                 *)
(***************************************************************************)
MaxQueueReqs == 3

\* queueing on, ceiling 1: without a cache, and with one of one entry
QueueConfigs ==
  { Given(Some(CacheSection(Some(FALSE), Undef, Undef)),
          Some(RateLimitSection(Some(TRUE), Some(1), Some(TRUE)))),
    Given(Some(CacheSection(Some(TRUE), Some(1000), Some(1))),
          Some(RateLimitSection(Some(TRUE), Some(1), Some(TRUE)))) }

\* the upstream answers, refuses, or cannot be reached
QueueResponses == { Resp("ok", "full"), Resp("403", "empty"), Resp("none", "") }

QueueInit == InitWith(QueueConfigs)

QueueCall(c) == CallWithin(c, MaxQueueReqs)

QueueFetchResponds ==
  \E f \in inflight, status \in {"ok", "403"} : FetchResponds(f, status)

QueueFetchDone == \E f \in inflight, resp \in QueueResponses : FetchDone(f, resp)

QueueNext ==
  \/ \E c \in ValidCalls : QueueCall(c)
  \/ QueueFetchResponds
  \/ QueueFetchDone
  \/ PauseDone
  \/ RecheckFires
  \/ CleanupFires
  \/ \E d \in ClockSteps : Tick(d)

SpecQueue ==
  /\ QueueInit /\ [][QueueNext]_vars
  /\ WF_vars(QueueFetchResponds)
  /\ WF_vars(QueueFetchDone)
  /\ WF_vars(PauseDone)
  /\ WF_vars(RecheckFires)
  /\ WF_vars(Tick(OneHour))

(***************************************************************************)
(* SpecStats: the client and a caller that reads the rate-limit statistics *)
(* between its requests, with and without queueing.                        *)
(***************************************************************************)
MaxStatsReqs == 3

StatsConfigs ==
  QueueConfigs \cup
  { Given(Undef, Some(RateLimitSection(Some(TRUE), Some(1), Some(FALSE)))),
    Given(Undef, Some(RateLimitSection(Undef, Some(1), Some(FALSE)))),
    Given(Undef, Some(RateLimitSection(Some(FALSE), Some(1), Some(TRUE)))),
    Given(Undef, Undef) }

\* the requests of the caller
StatsCalls == { Call_("getTle", << Num(25544) >>) }

StatsInit == InitWith(StatsConfigs)
StatsCall(c) == CallWithin(c, MaxStatsReqs)
StatsRead == GetRateLimitStatsWithin(MaxStatsReqs)

StatsNext ==
  \/ \E c \in StatsCalls : StatsCall(c)
  \/ StatsRead
  \/ QueueFetchResponds
  \/ QueueFetchDone
  \/ PauseDone
  \/ RecheckFires
  \/ CleanupFires
  \/ \E d \in ClockSteps : Tick(d)

SpecStats == StatsInit /\ [][StatsNext]_vars

(***************************************************************************)
(* SpecTle: the client with its cache, callers that ask for the elements   *)
(* of a satellite by number and by name, and a clock that advances by ten  *)
(* and by twenty-five minutes.                                             *)
(***************************************************************************)
MaxTleReqs == 3

\* ten minutes, twenty-five minutes
TleSteps == {600000, 1500000}

\* no config at all, a cache with a store default of one minute, no cache,
\* and { cache: { ttlMs }, rateLimit: { requestsPerHour, queueRequests } }
TleConfigs ==
  { Given(Undef, Undef),
    Given(Some(CacheSection(Some(TRUE), Some(60000), Some(100))), Undef),
    Given(Some(CacheSection(Some(FALSE), Undef, Undef)), Undef),
    Given(Some(CacheSection(Undef, Some(60000), Undef)),
          Some(RateLimitSection(Undef, Some(1), Some(TRUE)))) }

TleCalls ==
  { Call_("getTle", << Num(25544) >>),
    Call_("getTle", << Num(20580) >>),
    Call_("getTleByName", << Name("iss") >>),
    Call_("getTleByName", << Name("ISS") >>),
    Call_("getTleByName", << Name("voyager") >>) }

\* the upstream answers with the elements, or refuses
TleResponses == { Resp("ok", "full"), Resp("403", "empty") }

TleInit == InitWith(TleConfigs)
TleCall(c) == CallWithin(c, MaxTleReqs)
TleFetchDone == \E f \in inflight, resp \in TleResponses : FetchDone(f, resp)

TleNext ==
  \/ \E c \in TleCalls : TleCall(c)
  \/ QueueFetchResponds
  \/ TleFetchDone
  \/ CleanupFires
  \/ \E d \in TleSteps : Tick(d)

SpecTle == TleInit /\ [][TleNext]_vars

(***************************************************************************)
(* Claims about the client, under Spec.                                    *)
(***************************************************************************)
\* the fetch calls started in the trailing hour
FetchesInWindow ==
  Cardinality({j \in 1..Len(fetchLog) : fetchLog[j] > now - OneHour})

\* this step is the call c of a public network operation
Calls(c) == ev'.type = "call" /\ nreq' = nreq + 1 /\ ev'.c = c

\* the cache key of a valid call
KeyOf(c) == getCacheKey(EndpointOf(Validate(c).v))

\* the cache holds an entry for the key that is within its TTL
HoldsFresh(key) ==
  /\ MapHas(cache, key)
  /\ MapGet(cache, key).ttl # Undef
       => now - MapGet(cache, key).timestamp <= MapGet(cache, key).ttl[1]

\* C1: with requestsPerHour = N and queueRequests = false, once N requests
\* have been admitted in the trailing hour, the next request that misses
\* the cache is rejected with RateLimitError and starts no fetch.
C1_RejectsAtCeiling ==
  [][\A c \in ValidCalls :
       ( /\ Calls(c)
         /\ config.rateLimit.requestsPerHour # Undef
         /\ config.rateLimit.queueRequests = Some(FALSE)
         /\ config.rateLimit.enabled # Some(FALSE)
         /\ FetchesInWindow >= config.rateLimit.requestsPerHour[1]
         /\ ~HoldsFresh(KeyOf(c)) )
       => /\ ev'.outcome.settled = "reject"
          /\ ev'.outcome.error.kind = "RateLimitError"
          /\ fetchLog' = fetchLog
          /\ inflight' = inflight]_vars

\* C2: with rate limiting enabled, the fetch calls started within the
\* trailing hour never number more than requestsPerHour, whether admitted
\* directly or by the drain loop, in whatever order calls, re-checks,
\* pauses, responses and clock steps come.
C2_WindowNeverExceeded ==
  Truthy(config.rateLimit.enabled) =>
    FetchesInWindow <= Nullish(config.rateLimit.requestsPerHour, 1000)

\* ceiling 1: the first request was admitted directly; after the window
\* moved past it the drain loop has started the second, queued one; the
\* third call, made while that fetch is pending, found the slot taken and
\* was queued
C2_Witness ==
  /\ Truthy(config.rateLimit.enabled)
  /\ config.rateLimit.requestsPerHour = Some(1)
  /\ ev.type = "call" /\ ev.id = 3 /\ ev.outcome.settled = "queued"
  /\ \E f \in inflight : f.via = "drain" /\ f.id = 2
  /\ Len(fetchLog) = 2 /\ FetchesInWindow = 1

\* C3: a request whose cache key has an entry within its TTL returns the
\* stored value, starts no fetch and adds no rate-limit timestamp and no
\* queue entry, also when the window is full.
C3_FreshHitShortCircuits ==
  [][\A c \in ValidCalls :
       (Calls(c) /\ HoldsFresh(KeyOf(c)))
       => /\ ev'.outcome = Deliver(Validate(c).v,
                                   Resolve(MapGet(cache, KeyOf(c)).data))
          /\ UNCHANGED <<fetchLog, inflight, requests, queue>>]_vars

\* C8: a call of a network operation with arguments that break a rule fails
\* with InvalidParameterError, starts no fetch, and leaves the cache, the
\* rate-limit timestamps and the queue as they were.
C8_InvalidCallTouchesNothing ==
  [][\A c \in InvalidCalls :
       Calls(c)
       => /\ ev'.outcome.settled = "reject"
          /\ ev'.outcome.error.kind = "InvalidParameterError"
          /\ UNCHANGED <<cache, requests, queue, inflight, fetchLog,
                         processing, drain, timers>>]_vars

\* an invalid call has just been rejected by a client whose cache and
\* rate-limit record are not empty
C8_Witness ==
  /\ ev.type = "call" /\ ev.c \in InvalidCalls
  /\ ev.outcome.settled = "reject"
  /\ ev.outcome.error.kind = "InvalidParameterError"
  /\ cache # <<>> /\ requests # <<>>

\* this step handles the response to a fetch (or its rejection): the rest of
\* makeActualRequest runs
FetchSettles == ev'.type = "done" /\ inflight' # inflight

\* C11: a response with status 429 makes the operation fail with
\* RateLimitError whatever its body is (empty, a structured error,
\* unparseable), and the cache is not written.
C11_429IsRateLimitError ==
  [][(FetchSettles /\ ev'.resp.status = "429")
       => /\ ev'.outcome.settled = "reject"
          /\ ev'.outcome.error = RateLimitError("")
          /\ cache' = cache]_vars

\* a 429 whose body is a structured error has just been answered with
\* RateLimitError, the cache holding an earlier response
C11_Witness ==
  /\ ev.type = "done" /\ ev.resp = Resp("429", ErrorObject)
  /\ ev.outcome.settled = "reject"
  /\ ev.outcome.error.kind = "RateLimitError"
  /\ cache # <<>>

\* C12: a response with a non-success status other than 429 makes the
\* operation fail with N2YOError; the message carries the structured error
\* of the body when the body has one (403 with {error: 'Invalid API Key!'}
\* gives a message containing 'Invalid API Key!'), the status text otherwise.
C12_ErrorMessageFromBody ==
  [][(FetchSettles /\ ev'.resp.status \in OtherStatuses)
       => /\ ev'.outcome.settled = "reject"
          /\ ev'.outcome.error =
               N2YOError(IF ev'.resp.body = ErrorObject
                           THEN ApiRequestFailed("Invalid API Key!")
                           ELSE ApiRequestFailed(StatusText(ev'.resp)))]_vars

\* the classes of errors.ts
ClassifiedKinds == {"InvalidParameterError", "RateLimitError", "N2YOError"}

\* C13: when fetch rejects (no response at all) the operation rejects with
\* an N2YOError, one of the three classified kinds and never the raw error,
\* that is not the error of an HTTP-level failure.
C13_TransportFailureIsN2YOError ==
  [][(FetchSettles /\ ev'.resp.status = "none")
       => /\ ev'.outcome.settled = "reject"
          /\ ev'.outcome.error.kind \in ClassifiedKinds
          /\ ev'.outcome.error.kind = "N2YOError"
          /\ ev'.outcome.error #
               makeActualRequestResult(Resp("403", "empty")).error]_vars

(***************************************************************************)
(* Claims about the pending queue, under SpecQueue.                        *)
(***************************************************************************)
\* the rate-limit record holds as many timestamps of the trailing hour as
\* the ceiling allows
WindowSaturated ==
  /\ Truthy(config.rateLimit.enabled)
  /\ Cardinality({j \in 1..Len(requests) : requests[j] > now - OneHour})
       >= Nullish(config.rateLimit.requestsPerHour, 1000)

QueuedIds == {queue[j].id : j \in 1..Len(queue)}

\* the fetches started in this step
Started == {f \in inflight' : \A g \in inflight : g.id # f.id}

\* C14: with queueing on, a request that misses the cache while the window
\* is saturated is appended at the end of the queue and is not rejected; it
\* starts no fetch and adds no timestamp, and the fetch of a queued request
\* is started only by the drain loop taking it from the head of the queue.
C14_SaturatedRequestIsQueued ==
  /\ [][\A c \in ValidCalls :
          ( /\ Calls(c)
            /\ Truthy(config.rateLimit.queueRequests)
            /\ WindowSaturated
            /\ ~HoldsFresh(KeyOf(c)) )
          => /\ ev'.outcome.settled = "queued"
             /\ queue' = Append(queue, Queued(nreq', Validate(c).v))
             /\ Started = {}
             /\ fetchLog' = fetchLog
             /\ Len(requests') <= Len(requests)
             /\ \A j \in 1..Len(requests') :
                  \E k \in 1..Len(requests) : requests'[j] = requests[k]]_vars
  /\ [][\A f \in Started :
          f.id \in QueuedIds
          => /\ f.via = "drain"
             /\ f.id = Head(queue).id
             /\ queue' = Tail(queue)
             /\ Len(requests') <= Len(requests) + 1]_vars
  /\ [](\A f \in inflight : f.id \notin QueuedIds)

\* a request has just been queued behind another one, a single fetch
\* having been made
C14_Witness ==
  /\ ev.type = "call" /\ ev.outcome.settled = "queued"
  /\ Len(queue) = 2 /\ queue[2].id = ev.id
  /\ Len(fetchLog) = 1 /\ Len(requests) = 1

\* C15: the queue is drained first in, first out: the queue keeps the order
\* of arrival, the drain loop starts the request at its head, and it does
\* so only when every request it took earlier has settled; so of two queued
\* requests the earlier one is started and its caller settled before the
\* later one is started.
C15_FifoDrain ==
  /\ [](\A j \in 1..Len(queue), k \in 1..Len(queue) :
          j < k => queue[j].id < queue[k].id)
  /\ [][\A f \in Started :
          f.via = "drain"
          => /\ queue # <<>> /\ f.id = Head(queue).id
             /\ queue' = Tail(queue)
             /\ \A g \in inflight : g.via # "drain"]_vars

\* the third call, queued behind the second, has been started by the drain
\* loop after the second one was started and settled
C15_Witness ==
  /\ \E f \in inflight : f.via = "drain" /\ f.id = 3
  /\ queue = <<>> /\ Len(fetchLog) = 3
  /\ \A g \in inflight : g.id # 2

\* the request with this id is neither queued nor in flight
NotPending(id) == id \notin QueuedIds /\ \A f \in inflight : f.id # id

\* C16: with queueing on and a ceiling of at least 1, whenever the drain
\* loop is not running and the queue is not empty a re-check is scheduled;
\* once time has advanced far enough for the window to have capacity again,
\* that capacity serves the queue (the step that fills the window again
\* takes the request at the head of the queue), and so the request at the
\* head of the queue is eventually taken from the queue and executed and its
\* caller resolved or rejected, whatever calls are made meanwhile.
C16_QueuedIsEventuallyServed ==
  /\ []((queue # <<>> /\ ~processing) => timers.recheck # <<>>)
  /\ [][\A id \in 2..MaxQueueReqs :
          ( /\ queue # <<>> /\ Head(queue).id = id
            /\ ~processing /\ ~WindowSaturated
            /\ WindowSaturated' )
          => id \notin QueuedIds']_vars
  /\ \A id \in 2..MaxQueueReqs :
       (queue # <<>> /\ Head(queue).id = id /\ ~processing /\ ~WindowSaturated)
         ~> NotPending(id)

(***************************************************************************)
(* Claims about the side effects of a request, under Spec.                 *)
(***************************************************************************)
\* the timestamps of the record that lie in the trailing hour
InWindow(reqs) == SelectSeq(reqs, LAMBDA ts : ts > now - OneHour)

\* this step adds no timestamp to the record
AddsNoTimestamp ==
  /\ Len(requests') <= Len(requests)
  /\ \A j \in 1..Len(requests') : \E k \in 1..Len(requests) : requests'[j] = requests[k]

\* a step that starts no fetch adds no timestamp: so a call answered from
\* the cache, rejected by validation or rejected as rate-limited adds none;
\* and the settling of a fetch, whatever the response, changes nothing
NoFetchNoTimestamp ==
  /\ Started = {} => AddsNoTimestamp
  /\ (ev'.type = "call" /\ ev'.outcome.settled \in {"resolve", "reject"})
       => Started = {}
  /\ FetchSettles => requests' = requests

\* C17 as stated: every request admitted to the network, directly or by the
\* drain loop, adds exactly one timestamp to the rate-limit record, whatever
\* becomes of the call; requests served from the cache, rejected by
\* validation or rejected as rate-limited add none.
C17_OneTimestampPerAdmission ==
  /\ [][Started # {} => /\ Cardinality(Started) = 1
                        /\ requests' = Append(InWindow(requests), now)]_vars
  /\ [][NoFetchNoTimestamp]_vars

\* C17, amended: the same while rate limiting is enabled; with rate
\* limiting off no request adds a timestamp.
C17_OneTimestampWhenEnabled ==
  /\ [][Started # {} =>
          /\ Cardinality(Started) = 1
          /\ requests' = IF Truthy(config.rateLimit.enabled)
                            THEN Append(InWindow(requests), now)
                            ELSE requests]_vars
  /\ [][NoFetchNoTimestamp]_vars

\* rate limiting on: a request started by the drain loop an hour after the
\* first has failed in transport, and the record holds its one timestamp
C17_Witness ==
  /\ Truthy(config.rateLimit.enabled)
  /\ ev.type = "done" /\ ev.resp.status = "none"
  /\ Len(fetchLog) = 2 /\ requests = << fetchLog[2] >>
  /\ fetchLog[2] > fetchLog[1]

\* the failures of a request that has reached the network: a non-success
\* status (HTTP error, 429), no response at all, a body that does not parse
FailedResponse(resp) == resp.status # "ok" \/ resp.body \in UnparseableBodies

\* the entries of the map under other keys
OthersOf(m, key) == SelectSeq(m, LAMBDA en : en.key # key)

\* this step leaves under key one entry holding the body received, stamped
\* now, with the TTL the operation passes; the other entries are those
\* held before, less the oldest one when the cache was full
WritesOnce(key, op) ==
  /\ Cardinality({j \in 1..Len(cache') : cache'[j].key = key}) = 1
  /\ MapGet(cache', key) = CacheEntry(key, ev'.resp.body, now, TtlOf(op))
  /\ \/ OthersOf(cache', key) = OthersOf(cache, key)
     \/ /\ cache # <<>> /\ Len(cache) >= config.cache.maxEntries[1]
        /\ OthersOf(cache', key) = OthersOf(Tail(cache), key)

\* only the settling of a fetch adds or rewrites an entry
OnlySettlingWrites ==
  FetchSettles \/ \A j \in 1..Len(cache') : \E k \in 1..Len(cache) : cache'[j] = cache[k]

\* C18 as stated: a request that has reached the network writes the cache
\* exactly once, under its own key and with the operation's TTL, if it
\* succeeds, and leaves the cache as it was if it fails (HTTP error, 429,
\* transport failure, unparseable body).
C18_OneCacheWritePerSuccess ==
  /\ [][FetchSettles =>
          IF FailedResponse(ev'.resp) THEN cache' = cache
          ELSE ev'.resp.body \in Payloads
                 => WritesOnce(getCacheKey(EndpointOf(ev'.c)), ev'.c.op)]_vars
  /\ [][OnlySettlingWrites]_vars

\* C18, amended: the same while the cache is enabled; with the cache
\* disabled a successful request writes nothing either.
C18_OneCacheWriteWhenEnabled ==
  /\ [][FetchSettles =>
          IF FailedResponse(ev'.resp) \/ ~Truthy(config.cache.enabled)
            THEN cache' = cache
            ELSE ev'.resp.body \in Payloads
                   => WritesOnce(getCacheKey(EndpointOf(ev'.c)), ev'.c.op)]_vars
  /\ [][OnlySettlingWrites]_vars

\* cache enabled with room for one entry: the payload of getPositions has
\* replaced the entry of getTle and carries the TTL of getPositions
C18_Witness ==
  /\ Truthy(config.cache.enabled) /\ config.cache.maxEntries = Some(1)
  /\ ev.type = "done" /\ ev.resp = Resp("ok", "full") /\ ev.c.op = "getPositions"
  /\ Len(fetchLog) = 2
  /\ Len(cache) = 1 /\ cache[1].data = "full" /\ cache[1].ttl = Some(120000)
  /\ cache[1].timestamp = now

\* C19: a response with a success status whose body is a top-level error
\* object ({error: 'Invalid API Key!'}) is a failure like a non-success
\* status: the caller is rejected with InvalidParameterError, the object is
\* not returned as a payload and the cache is not written.
C19_ErrorObjectIsFailure ==
  [][(FetchSettles /\ ev'.resp = Resp("ok", ErrorObject))
       => /\ ev'.outcome.settled = "reject"
          /\ ev'.outcome.error.kind = "InvalidParameterError"
          /\ cache' = cache]_vars

\* C20: a response with a success status whose body does not parse rejects
\* the caller with an N2YOError (malformed response), and the cache is not
\* written.
C20_UnparseableIsN2YOError ==
  [][(FetchSettles /\ ev'.resp.status = "ok"
        /\ ev'.resp.body \in UnparseableBodies)
       => /\ ev'.outcome.settled = "reject"
          /\ ev'.outcome.error.kind = "N2YOError"
          /\ cache' = cache]_vars

(***************************************************************************)
(* Claims about the operations' own handling, under Spec.                  *)
(***************************************************************************)
\* C21: getTleByName with a non-empty name that is not in the table fails
\* with InvalidParameterError on the parameter 'name', and with an empty name
\* fails with InvalidParameterError 'Satellite name must not be empty';
\* neither starts a fetch, touches the cache or records a timestamp.
C21_UnknownNameIsInvalid ==
  [][\A c \in InvalidCalls :
       (Calls(c) /\ c.op = "getTleByName")
       => /\ ev'.outcome.settled = "reject"
          /\ ev'.outcome.error.kind = "InvalidParameterError"
          /\ ev'.outcome.error.param = "name"
          /\ c.args[1].s = ""
               => ev'.outcome.error.reason = "Satellite name must not be empty"
          /\ UNCHANGED <<cache, requests, queue, inflight, fetchLog>>]_vars

\* getTleByName('voyager') has just been rejected by a client that holds a
\* cached entry and a recorded request
C21_Witness ==
  /\ ev.type = "call" /\ ev.c = Call_("getTleByName", << Name("voyager") >>)
  /\ ev.outcome.settled = "reject" /\ ev.outcome.error.param = "name"
  /\ cache # <<>> /\ requests # <<>>

\* this step settles getPositions with a success whose payload has no
\* positions list
SettlesLackingPositions ==
  /\ FetchSettles /\ ev'.c.op = "getPositions"
  /\ ev'.resp.status = "ok" /\ ev'.resp.body \in LackingPositions

\* the call c follows at once the settling of the same call with a payload
\* that has no positions list
CalledAgain(c) ==
  /\ ev.type = "done" /\ ev.c = c
  /\ ev.resp.status = "ok" /\ ev.resp.body \in LackingPositions
  /\ Calls(c)

\* the call is answered at once with the result of the call before it, and
\* starts no fetch
SameResultNoFetch ==
  /\ ev'.outcome = ev.outcome
  /\ inflight' = inflight /\ fetchLog' = fetchLog /\ queue' = queue

\* C22 as stated: getPositions against a payload without positions (absent
\* or null) returns the payload's info with positions = []; the same call
\* made again returns the identical result from the cache, without a fetch.
C22_EmptyPositionsTwice ==
  /\ [][SettlesLackingPositions
          => ev'.outcome = Resolve("info, positions: []")]_vars
  /\ [][\A c \in ValidCalls : CalledAgain(c) => SameResultNoFetch]_vars

\* C22, amended: the second call is answered from the cache while the cache
\* is enabled; and any later call that finds the stored payload within its
\* TTL gets the same result without a fetch.
C22_EmptyPositionsTwiceWhenCached ==
  /\ [][SettlesLackingPositions
          => ev'.outcome = Resolve("info, positions: []")]_vars
  /\ [][\A c \in ValidCalls :
          (CalledAgain(c) /\ Truthy(config.cache.enabled))
          => SameResultNoFetch]_vars
  /\ [][\A c \in ValidCalls :
          (/\ Calls(c) /\ c.op = "getPositions"
           /\ HoldsFresh(KeyOf(c))
           /\ MapGet(cache, KeyOf(c)).data \in LackingPositions)
          => /\ ev'.outcome = Resolve("info, positions: []")
             /\ inflight' = inflight /\ fetchLog' = fetchLog]_vars

\* the second getPositions has been answered with info and positions = []
\* from the entry the first one left: one fetch in all
C22_Witness ==
  /\ ev.type = "call" /\ ev.c.op = "getPositions" /\ ev.id = 2
  /\ ev.outcome = Resolve("info, positions: []")
  /\ Len(fetchLog) = 1 /\ inflight = {}
  /\ cache # <<>> /\ cache[1].data = "infoNull"

(***************************************************************************)
(* Claims about utcToLocal, under SpecPure.                                *)
(***************************************************************************)
\* C23: utcToLocal with a finite timestamp and a non-empty zone name that is
\* not recognized does not throw: it returns the string the call with zone
\* 'UTC' returns and reports the fallback to debugLog.
C23_UnknownZoneFallsBackToUtc ==
  (/\ pure.fn = "utcToLocal" /\ pure.done
   /\ pure.in[2] # "" /\ ~DateTimeFormatAccepts(pure.in[2]))
  => /\ pure.out.ok
     /\ pure.out.v = utcToLocal(pure.in[1], "UTC").v
     /\ pure.out.log # <<>>

(***************************************************************************)
(* Further claims about the Cache class, under SpecCache.                  *)
(***************************************************************************)
\* C24: clear removes every entry, whatever its TTL: right after clear the
\* map is empty, get returns null for every key and getStats reports a total
\* of 0.
C24_ClearRemovesAll ==
  /\ [](cev.type = "clear" => cmap = <<>>)
  /\ [][(cev.type = "clear" /\ cev'.type = "get") => cev'.result = Undef]_vars
  /\ [][(cev.type = "clear" /\ cev'.type = "getStats")
          => cev'.result[1].total = 0]_vars

\* clear has just emptied a map that held an entry written with TTL 1000 and
\* one with the default TTL, none of them expired
C24_Witness ==
  /\ cev.type = "clear" /\ cev.flag /\ cmap = <<>>
  /\ csets = 2 /\ cticks = 0

(***************************************************************************)
(* Further claims about the queue, under SpecQueue.                        *)
(***************************************************************************)
\* the fetches the drain loop has started that have not settled
DrainFetches == {f \in inflight : f.via = "drain"}

\* C25: at most one drain loop is active: the processing flag is set exactly
\* while the loop is at its fetch or its pause, and a processQueue() called
\* while it is set, by a re-check timer or by a newly queued request, takes
\* nothing from the queue and starts no fetch.
C25_OneDrainLoop ==
  /\ [](Cardinality(DrainFetches) <= 1)
  /\ [](processing <=> drain.pc # "idle")
  /\ [](drain.pc = "fetch" <=> DrainFetches # {})
  /\ [][(processing /\ ev'.type = "recheck")
          => /\ queue' = queue /\ Started = {}
             /\ UNCHANGED <<processing, drain, requests, fetchLog>>]_vars
  /\ [][(processing /\ ev'.type = "call" /\ ev'.outcome.settled = "queued")
          => /\ Len(queue') = Len(queue) + 1
             /\ SubSeq(queue', 1, Len(queue)) = queue
             /\ Started = {}
             /\ UNCHANGED <<processing, drain, fetchLog>>]_vars

\* two requests were queued, each with its re-check timer; the first timer
\* started the loop, which is waiting for the fetch of request 2, and the
\* second timer has fired since and taken nothing
C25_Witness ==
  /\ ev.type = "recheck" /\ processing /\ drain.pc = "fetch"
  /\ \E f \in inflight : f.via = "drain" /\ f.id = 2
  /\ Len(queue) = 1 /\ queue[1].id = 3
  /\ timers.recheck = <<>>

\* C26: the drain loop has at most one queued request in flight: it takes
\* the next request only when the one before has settled and the 100 ms
\* pause that follows the settling has elapsed, and only when the window has
\* capacity at that moment.
C26_OneQueuedRequestInFlight ==
  /\ [](Cardinality(DrainFetches) <= 1)
  /\ [][\A f \in inflight :
          (f.via = "drain" /\ \A g \in inflight' : g.id # f.id)
          => drain' = DrainPause(now + 100) /\ queue' = queue]_vars
  /\ [][\A f \in Started :
          f.via = "drain"
          => /\ DrainFetches = {}
             /\ drain.pc \in {"idle", "pause"}
             /\ drain.pc = "pause" => now >= drain.due
             /\ ~WindowSaturated]_vars
  /\ [](drain.pc = "pause" => DrainFetches = {})

\* the loop has taken request 3 after the fetch of request 2 settled, the
\* pause ended and the window had capacity again
C26_Witness ==
  /\ ev.type = "pause" /\ drain.pc = "fetch"
  /\ \E f \in inflight : f.via = "drain" /\ f.id = 3
  /\ Len(fetchLog) = 3 /\ fetchLog[3] >= fetchLog[2] + 100
  /\ queue = <<>>

(***************************************************************************)
(* Claims about the rate limiter's record and statistics, under Spec.      *)
(***************************************************************************)
\* C27 as stated: in every reachable state the record of request timestamps
\* holds no entry older than one hour.
C27_NoStaleTimestampEver ==
  \A j \in 1..Len(requests) : requests[j] >= now - OneHour

\* this step decides on the admission of a request or reports on it:
\* a call that reaches the rate limiter, the drain loop starting a fetch or
\* ending on a non-empty queue, getRateLimitStats
ChecksWindow ==
  \/ ev'.type = "call" /\ nreq' = nreq + 1
       /\ \/ ev'.outcome.settled \in {"queued", "fetching"}
          \/ ev'.outcome.settled = "reject"
               /\ ev'.outcome.error.kind = "RateLimitError"
  \/ Started # {}
  \/ drain.pc = "pause" /\ drain'.pc = "idle" /\ queue # <<>>
  \/ ev'.type = "getRateLimitStats" /\ nreq' = nreq + 1

\* C27, amended: stale entries are dropped by the admission check, not when
\* time passes: after every step that checks the window, and after every
\* step that changes the record, the record holds only timestamps of the
\* trailing hour, in the order recorded.
C27_NoStaleTimestampAfterCheck ==
  /\ [][(ChecksWindow \/ requests' # requests)
          => \A j \in 1..Len(requests') : requests'[j] > now - OneHour]_vars
  /\ [](\A j \in 1..Len(requests) : requests[j] <= now)
  /\ [](\A j \in 1..Len(requests), k \in 1..Len(requests) :
          j < k => requests[j] <= requests[k])

\* a request admitted an hour after the first one: the check has dropped
\* the first timestamp and the record holds the new one only
C27_Witness ==
  /\ ev.type = "call" /\ ev.outcome.settled = "fetching"
  /\ Len(fetchLog) = 2 /\ fetchLog[1] <= now - OneHour
  /\ requests = << now >>

(***************************************************************************)
(* Claims about the rate-limit statistics, under SpecStats.                *)
(***************************************************************************)
\* the recorded timestamps that are inside the hour that ends at time t
RecordedWithin(reqs, t) == SelectSeq(reqs, LAMBDA ts : ts > t - OneHour)

\* this step is a call of getRateLimitStats
ReadsStats == ev'.type = "getRateLimitStats" /\ nreq' = nreq + 1

\* C28: getRateLimitStats reports the number of recorded requests of the
\* trailing hour, the configured ceiling, the length of the queue, and
\* canMakeRequest = true exactly when requestsThisHour is below the ceiling,
\* which is exactly when a cache-missing request made now is admitted at
\* once; reading the statistics changes nothing that decides on later
\* requests.
C28_StatsReportTheLimiter ==
  /\ [][ReadsStats =>
          /\ ev'.outcome.requestsThisHour = Len(RecordedWithin(requests, now))
          /\ ev'.outcome.requestsPerHourLimit = config.rateLimit.requestsPerHour
          /\ ev'.outcome.queuedRequests = Len(queue)
          /\ ev'.outcome.canMakeRequest
               <=> ev'.outcome.requestsThisHour
                     < Nullish(config.rateLimit.requestsPerHour, 1000)
          /\ UNCHANGED <<config, cache, queue, processing, drain, timers,
                         inflight, fetchLog>>
          /\ \A d \in {0} \cup ClockSteps :
               RecordedWithin(requests', now + d) = RecordedWithin(requests, now + d)]_vars
  /\ [][\A c \in StatsCalls :
          (ev.type = "getRateLimitStats" /\ Calls(c) /\ ~HoldsFresh(KeyOf(c)))
          => (ev.outcome.canMakeRequest <=> ev'.outcome.settled = "fetching")]_vars

\* the statistics have been read with the window full and a request queued
C28_Witness ==
  /\ ev.type = "getRateLimitStats"
  /\ ev.outcome.requestsThisHour = 1 /\ ~ev.outcome.canMakeRequest
  /\ ev.outcome.queuedRequests = 1 /\ ev.outcome.requestsPerHourLimit = Some(1)
  /\ Len(fetchLog) = 1 /\ queue # <<>>

\* the entries of the map whose TTL has not elapsed, in their order
Unexpired(m) == SelectSeq(m, LAMBDA en : cnow - en.timestamp <= en.ttl)

\* every entry the map holds after this step it held before, unaltered
NothingAddedOrAltered ==
  \A j \in 1..Len(cmap') : \E k \in 1..Len(cmap) : cmap'[j] = cmap[k]

\* C29: the cleanup sweep removes every entry whose TTL has elapsed and no
\* other, the remaining entries keeping value, timestamp and TTL; cleanup
\* and get never add, restore or alter an entry, in any interleaving with
\* set: an entry that is new or altered comes from a set of its key.
C29_CleanupOnlyRemovesExpired ==
  /\ [][cev'.type = "cleanup" => cmap' = Unexpired(cmap)]_vars
  /\ [][cev'.type \in {"cleanup", "get"} => NothingAddedOrAltered]_vars
  /\ [][\A j \in 1..Len(cmap') :
          (\A k \in 1..Len(cmap) : cmap'[j] # cmap[k])
          => cev'.type = "set" /\ cev'.key = cmap'[j].key]_vars

\* the sweep has just removed an expired entry and left one that has not
\* expired
C29_Witness ==
  /\ cev.type = "cleanup" /\ cev.flag
  /\ cmap # <<>> /\ Unexpired(cmap) = cmap

\* C30: the statistics report total = the number of stored entries =
\* expired + valid, expired being the number of stored entries whose TTL has
\* elapsed, and maxEntries the configured capacity; computing them leaves
\* the map as it was.
C30_StatsCountEntries ==
  [][cev'.type = "getStats" =>
       /\ cev'.result[1].total = Len(cmap)
       /\ cev'.result[1].expired =
            Cardinality({j \in 1..Len(cmap) : cnow - cmap[j].timestamp > cmap[j].ttl})
       /\ cev'.result[1].valid = Len(Unexpired(cmap))
       /\ cev'.result[1].total = cev'.result[1].expired + cev'.result[1].valid
       /\ cev'.result[1].maxEntries = ccfg.maxEntries
       /\ UNCHANGED <<cmap, ccfg, ctimer>>]_vars

\* the statistics have just counted an expired entry and a valid one
C30_Witness ==
  /\ cev.type = "getStats"
  /\ cev.result[1].expired = 1 /\ cev.result[1].valid = 1
  /\ cev.result[1].total = 2 /\ Len(cmap) = 2

\* C31: destroy stops the periodic sweep for good: once the interval is
\* cleared it is never set again and starts no sweep (a sweep then runs only
\* when the program calls cleanup itself); destroy can be called in every
\* state, also when the interval was never set or already cleared, and
\* changes nothing else.
C31_NoSweepAfterDestroy ==
  /\ [][cev'.type = "destroy" => ~ctimer'.active /\ UNCHANGED <<cmap, ccfg>>]_vars
  /\ [][~ctimer.active =>
          /\ ~ctimer'.active
          /\ ~(cev'.type = "cleanup" /\ cev'.key = "interval")]_vars
  /\ [](ENABLED CacheDestroy)

\* an enabled cache was destroyed; the time of the next sweep has passed and
\* the expired entry is still in the map
C31_Witness ==
  /\ Truthy(ccfg.enabled) /\ ~ctimer.active
  /\ cnow >= ctimer.due
  /\ \E j \in 1..Len(cmap) : Expired(cmap[j], cnow)

KeyTwice == pure.fn = "getCacheKey twice" /\ pure.done

\* C32: deriving the key of a key gives the key again, for every endpoint
\* text and each of the key derivations: Cache.getCacheKey,
\* Cache.normalizeKey and the client's getCacheKey.
C32_KeyOfKeyIsKey ==
  KeyTwice =>
    /\ pure.out.cache[2] = pure.out.cache[1]
    /\ pure.out.normalize[2] = pure.out.normalize[1]
    /\ pure.out.client[2] = pure.out.client[1]

(***************************************************************************)
(* Claims about the orbital elements, under SpecTle.                       *)
(***************************************************************************)
ThirtyMinutes == 1800000

\* the elements stored under key are at most age old
HoldsElements(key, age) ==
  \E j \in 1..Len(cache) :
    /\ cache[j].key = key /\ cache[j].data = "full"
    /\ now - cache[j].timestamp <= age

\* the entries of the map stay, or are written anew, while they are at most
\* age old
EntriesStayFor(age) ==
  \A j \in 1..Len(cache) :
    now' - cache[j].timestamp <= age =>
      \E k \in 1..Len(cache') :
        /\ cache'[k].key = cache[j].key
        /\ cache'[k].timestamp >= cache[j].timestamp

\* C33: with caching on, the elements a getTle received are stored with a
\* TTL of thirty minutes whatever the store default is, the entry stays for
\* thirty minutes, and a getTle for the same satellite made while the entry
\* is at most thirty minutes old gets the stored elements and starts no
\* fetch.
C33_TleCachedThirtyMinutes ==
  /\ [][(FetchSettles /\ ev'.outcome.settled = "resolve"
           /\ Truthy(config.cache.enabled)) =>
          \E j \in 1..Len(cache') :
            cache'[j] = CacheEntry(getCacheKey(EndpointOf(ev'.c)),
                                   ev'.outcome.value, now, Some(ThirtyMinutes))]_vars
  /\ [][EntriesStayFor(ThirtyMinutes)]_vars
  /\ [][\A id \in {25544, 20580} :
          LET c == Call_("getTle", << Num(id) >>) IN
            (Calls(c) /\ Truthy(config.cache.enabled)
               /\ HoldsElements(KeyOf(c), ThirtyMinutes)) =>
              /\ ev'.outcome = Resolve("full")
              /\ UNCHANGED <<inflight, fetchLog, requests, queue>>]_vars

\* a client without any config made one fetch for the ISS; a getTle made
\* more than five minutes later got the elements from the cache
C33_Witness ==
  /\ config = ConstructorConfig(Given(Undef, Undef))
  /\ ev.type = "call" /\ ev.c = Call_("getTle", << Num(25544) >>)
  /\ ev.outcome = Resolve("full")
  /\ Len(fetchLog) = 1
  /\ \E j \in 1..Len(cache) :
       /\ cache[j].key = KeyOf(ev.c)
       /\ now - cache[j].timestamp > DefaultCacheSection.ttlMs[1]

\* the getTle call for the satellite the name stands for, whatever its case
ByNumber(c) ==
  Call_("getTle", << Num(COMMON_SATELLITES(ToUpperCase(c.args[1].s))[1]) >>)

\* the getTleByName calls with a name that stands for a satellite
NamedCalls ==
  { c \in TleCalls : /\ c.op = "getTleByName"
                     /\ COMMON_SATELLITES(ToUpperCase(c.args[1].s)) # Undef }

\* C34: getTleByName with a name that stands, in whatever case, for the
\* satellite N does what getTle(N) does in the same state: the same endpoint
\* and cache key, the same result or the same fetch, the same changes of the
\* state; and while the cache holds the elements of N, less than thirty
\* minutes old, either call gets them without a fetch.
C34_ByNameIsByNumber ==
  /\ [][\A c \in NamedCalls :
          Calls(c) =>
            /\ Validate(c).ok
            /\ EndpointOf(Validate(c).v) = EndpointOf(Validate(ByNumber(c)).v)
            /\ KeyOf(c) = KeyOf(ByNumber(c))
            /\ CallAs(ByNumber(c), c, MaxTleReqs)]_vars
  /\ [][\A c \in NamedCalls : \A d \in {c, ByNumber(c)} :
          (Calls(d) /\ Truthy(config.cache.enabled)
             /\ HoldsElements(KeyOf(ByNumber(c)), ThirtyMinutes)) =>
            /\ ev'.outcome = Resolve("full")
            /\ UNCHANGED <<inflight, fetchLog, requests, queue>>]_vars

\* one fetch for the ISS has been made, and getTleByName('iss'), the second
\* call, got the elements from the cache
C34_Witness ==
  /\ ev.type = "call" /\ ev.c = Call_("getTleByName", << Name("iss") >>)
  /\ ev.outcome = Resolve("full")
  /\ nreq = 2 /\ Len(fetchLog) = 1
  /\ HoldsElements(KeyOf(Call_("getTle", << Num(25544) >>)), ThirtyMinutes)

\* C35: whatever set, get, cleanup and clear calls are made on a cache with
\* maxEntries >= 1, the map never holds more than maxEntries entries.
C35_NeverOverCapacity ==
  ccfg.maxEntries[1] >= 1 => Len(cmap) <= ccfg.maxEntries[1]

\* a cache of two entries was full, and a set of a third key has left it
\* with two entries
C35_Witness ==
  /\ ccfg.maxEntries = Some(2)
  /\ cev.type = "set" /\ cev.flag
  /\ Len(cmap) = 2 /\ csets = 3

KeysOfTwo == pure.fn = "keys of two requests" /\ pure.done

\* C36: two requests whose endpoints differ, be it in the operation segment
\* or in a path parameter, get different cache keys, from Cache.getCacheKey
\* as from the client's getCacheKey.
C36_DistinctRequestsDistinctKeys ==
  (KeysOfTwo /\ pure.out.endpoints[1] # pure.out.endpoints[2]) =>
    /\ pure.out.cache[1] # pure.out.cache[2]
    /\ pure.out.client[1] # pure.out.client[2]

\* the config the client is to have: each section the defaults, with the
\* fields that were given in their place
DocumentedConfig(given) ==
  [cache |-> Spread(DefaultCacheSection, given.cache),
   rateLimit |-> Spread(DefaultRateLimitSection, given.rateLimit)]

\* C37: a client constructed with a partial cache or rateLimit section has
\* the default for every field that was not given: with only ttlMs caching
\* is enabled with maxEntries 100, with only requestsPerHour and
\* queueRequests rate limiting is enabled.
C37_PartialConfigKeepsDefaults ==
  /\ config \in { DocumentedConfig(given) : given \in TleConfigs }
  /\ config.cache.enabled # Undef /\ config.cache.maxEntries # Undef
  /\ config.rateLimit.enabled # Undef

\* C38: a set of a key the map holds, made when the map holds maxEntries
\* entries, replaces the entry of that key (payload, timestamp, TTL) and
\* leaves every other entry as it was.
C38_RewriteAtCapacityEvictsNothing ==
  [][(/\ cev'.type = "set" /\ csets' = csets + 1
      /\ Truthy(ccfg.enabled)
      /\ MapHas(cmap, cev'.key)
      /\ Len(cmap) >= Nullish(ccfg.maxEntries, 100)) =>
       /\ MapKeys(cmap') = MapKeys(cmap)
       /\ \A j \in 1..Len(cmap) :
            cmap[j].key # cev'.key => \E k \in 1..Len(cmap') : cmap'[k] = cmap[j]
       /\ MapGet(cmap', cev'.key) =
            CacheEntry(cev'.key, CacheData(csets'), cnow,
                       CacheSetTtl(ccfg, cev'.result))]_vars

\* C39: while requests are waiting in the queue, a new request that misses
\* the cache is not admitted ahead of them: it starts no fetch and takes its
\* place at the end of the queue.
C39_NoOvertaking ==
  [][\A c \in ValidCalls :
       ( /\ Calls(c)
         /\ queue # <<>>
         /\ Truthy(config.rateLimit.queueRequests)
         /\ ~HoldsFresh(KeyOf(c)) )
       => /\ Started = {}
          /\ ev'.outcome.settled = "queued"
          /\ queue' = Append(queue, Queued(nreq', Validate(c).v))]_vars

\* the calls made so far that are neither queued nor in flight: their
\* callers have been settled
Settled == {id \in 1..nreq : NotPending(id)}

\* C40: a queued request leaves the queue once, by the drain loop starting
\* its one fetch, and never comes back; when that fetch settles, the caller
\* of that request, and no other, gets the outcome made from its response;
\* and a caller that has been settled is not settled again.
C40_QueuedSettledOnce ==
  /\ [](/\ \A f \in inflight : f.id \notin QueuedIds /\ f.id <= nreq
        /\ \A f \in inflight, g \in inflight : f.id = g.id => f = g
        /\ \A j \in 1..Len(queue), k \in 1..Len(queue) :
             queue[j].id = queue[k].id => j = k)
  /\ [][\A id \in QueuedIds :
          id \notin QueuedIds' =>
            /\ id = Head(queue).id
            /\ Started = {Fetch(id, Head(queue).c, "drain")}
            /\ Len(fetchLog') = Len(fetchLog) + 1]_vars
  /\ [][\A f \in Started :
          f.via = "drain" => f.id \in QueuedIds /\ f.id \notin QueuedIds']_vars
  /\ [][\A id \in 1..nreq :
          /\ id \notin QueuedIds => id \notin QueuedIds'
          /\ id \in Settled => /\ NotPending(id)'
                               /\ ~(ev'.type = "done" /\ ev'.id = id)]_vars
  /\ [][ev'.type = "done" =>
          \E f \in inflight :
            /\ inflight' = inflight \ {f}
            /\ ev'.id = f.id /\ ev'.c = f.c
            /\ ev'.outcome = Deliver(f.c, makeActualRequestResult(ev'.resp))
            /\ queue' = queue /\ fetchLog' = fetchLog]_vars

\* three calls were made with a ceiling of one: the second and the third
\* were queued, the drain loop has run them one after the other, and the
\* third has just been settled with its response
C40_Witness ==
  /\ ev.type = "done" /\ ev.id = 3 /\ ev.outcome.settled = "resolve"
  /\ Settled = {1, 2, 3}
  /\ Len(fetchLog) = 3 /\ drain.pc = "pause"

====
